---- MODULE Spec2Model ----
(***************************************************************************)
(* A model of the epoll-based file-transfer server (server/epoll_server.c, *)
(* server/commands.c) and client (client/epoll_client.c).                  *)
(*                                                                         *)
(* Bytes are naturals 0..255 and every buffer is a sequence of bytes.      *)
(* Each handler of the C code is a pure operator from the state it reads   *)
(* (and the bytes recv returned) to the state it leaves; the actions apply *)
(* the handlers to the bytes the transport delivers.                       *)
(***************************************************************************)
EXTENDS Integers, Sequences, FiniteSets, TLC

\* ------------------------------------------------------------ constants
CHUNK_SIZE == 512
FILENAME_MAX_LEN == 64
MAX_CLIENTS == 10
\* sizeof(client->buffer), and of temp_buffer in handle_client_data
BUFFER_SIZE == 1024
\* sizeof(temp_buffer) in handle_file_transfer
XFER_BUFFER_SIZE == 2048
\* the server's header plausibility limits
MAX_HEADER_CHUNK_SIZE == 8192
MAX_TOTAL_CHUNKS == 2000000
\* sizeof(FileChunkHeader): four uint32_t and the filename
HEADER_SIZE == 16 + FILENAME_MAX_LEN

NUL == 0
LF == 10
CR == 13
SPACE == 32

\* ------------------------------------------------------------ bytes
Min(a, b) == IF a < b THEN a ELSE b

Take(s, n) == SubSeq(s, 1, n)

Drop(s, n) == SubSeq(s, n + 1, Len(s))

Fill(n, b) == [i \in 1..n |-> b]

\* index of the first occurrence of byte b in s, 0 when there is none
FirstIdx(s, b) ==
    LET S == {i \in 1..Len(s) : s[i] = b}
    IN  IF S = {} THEN 0 ELSE CHOOSE i \in S : \A j \in S : i <= j

\* strlen of a buffer holding s followed by a terminating NUL
strlen(s) == LET z == FirstIdx(s, NUL) IN IF z = 0 THEN Len(s) ELSE z - 1

\* the C string a char array starts with
CStr(s) == Take(s, strlen(s))

\* strchr(s, c) on the C string s starts with: index of c, 0 for NULL
strchr(s, c) ==
    LET p == FirstIdx(s, c)
    IN  IF p # 0 /\ p <= strlen(s) THEN p ELSE 0

\* strncmp(s, lit, Len(lit)) == 0
HasPrefix(s, lit) == Len(s) >= Len(lit) /\ Take(s, Len(lit)) = lit

\* strncpy(dst, src, n - 1); dst[n - 1] = 0 into a zeroed array of n bytes
StrField(src, n) ==
    LET t == Take(CStr(src), Min(strlen(src), n - 1))
    IN  t \o Fill(n - Len(t), NUL)

\* htonl: the four bytes of a uint32_t in network (big-endian) order
htonl(x) ==
    << (x \div 16777216) % 256, (x \div 65536) % 256, (x \div 256) % 256, x % 256 >>

(* ntohl of four bytes taken from the wire. A 32-bit value is carried as the *)
(* integer with the same 32 bits read in two's complement, so a uint32_t of  *)
(* 2^31 or more is carried as a negative number.                             *)
ntohl(b) ==
    (IF b[1] >= 128 THEN b[1] - 256 ELSE b[1]) * 16777216
        + b[2] * 65536 + b[3] * 256 + b[4]

\* u > k between a uint32_t u and a constant k >= 0
UGt(u, k) == u < 0 \/ u > k

\* a uint32_t stored into an int keeps its 32 bits
ToInt32(u) == u

\* ------------------------------------------------------------ text
S_upload == <<117, 112, 108, 111, 97, 100>>
S_get_ == <<103, 101, 116, 32>>
S_ls == <<108, 115>>
S_pwd == <<112, 119, 100>>
S_cd_ == <<99, 100, 32>>
S_delete_ == <<100, 101, 108, 101, 116, 101, 32>>
S_rename_ == <<114, 101, 110, 97, 109, 101, 32>>
S_health == <<104, 101, 97, 108, 116, 104>>
S_saved_ == <<115, 97, 118, 101, 100, 47>>

\* the text frames the server sends
MSG_SUCCESS_UPLOADED == "SUCCESS: File uploaded\n"
MSG_ERR_HEADER == "ERROR: Invalid file transfer header\n"
MSG_ERR_CREATE == "ERROR: Cannot create file\n"
MSG_ERR_OVERFLOW == "ERROR: Buffer overflow - connection terminated\n"
MSG_ERR_UNKNOWN == "ERROR: Unknown command\n"
MSG_ERR_RENAME == "ERROR: Invalid rename command\n"
MSG_ERR_NOT_FOUND == "ERROR: File not found\n"

\* ------------------------------------------------------------ FileChunkHeader
\* the header as it is laid out in memory and on the wire
hdr_chunk_id(h) == ntohl(SubSeq(h, 1, 4))

hdr_chunk_size(h) == ntohl(SubSeq(h, 5, 8))

hdr_total_chunks(h) == ntohl(SubSeq(h, 9, 12))

hdr_type(h) == ntohl(SubSeq(h, 13, 16))

hdr_filename(h) == SubSeq(h, 17, HEADER_SIZE)

MakeHeader(id, size, total, name) ==
    htonl(id) \o htonl(size) \o htonl(total) \o htonl(0) \o name

ZeroHeader == Fill(HEADER_SIZE, NUL)

\* ------------------------------------------------------------ files
\* FILE *: NULL, or a stream open on a path
NULL == [open |-> FALSE, path |-> <<>>]

\* fopen(path, "wb") fails when the path names a directory ("saved/")
CanCreate(path) == path # S_saved_

fopen_wb(fs, path) ==
    [p \in (DOMAIN fs) \cup {path} |-> IF p = path THEN <<>> ELSE fs[p]]

fwrite(fs, f, bytes) == [fs EXCEPT ![f.path] = @ \o bytes]

\* ------------------------------------------------------------ state
VARIABLES
    clients,      \* server: clients[0..client_count-1], in array order
    fs,           \* server: the files on disk, path -> content
    nopen,        \* server: FILE streams opened and not yet closed
    epoll_set,    \* server: descriptors registered with epoll
    open_fds,     \* server: accepted descriptors not yet closed
    net_in,       \* per descriptor: bytes in flight towards the server
    peer_open,    \* per descriptor: the peer has not closed its end
    net_out,      \* per descriptor: frames the server sent to the peer
    hist,         \* per descriptor: what the server did with the connection
    last,         \* the readiness event handled last
    scn           \* the input scenario of this behaviour

svars == <<clients, fs, nopen, epoll_set, open_fds, net_in, peer_open, net_out, hist, last, scn>>

\* ------------------------------------------------------------ registry
\* add_client's initialisation of clients[client_count]
new_client(socket_fd) ==
    [ socket_fd         |-> socket_fd,
      buffer            |-> <<>>,
      buffer_len        |-> 0,
      state             |-> 0,
      upload_file       |-> NULL,
      upload_filename   |-> <<>>,
      expected_chunks   |-> 0,
      received_chunks   |-> 0,
      recv_buffer       |-> <<>>,
      bytes_in_buffer   |-> 0,
      header_complete   |-> 0,
      current_header    |-> ZeroHeader,
      payload_remaining |-> 0 ]

client_count(cs) == Len(cs)

\* index of the entry find_client returns, 0 for NULL
find_client(cs, socket_fd) ==
    LET S == {i \in 1..Len(cs) : cs[i].socket_fd = socket_fd}
    IN  IF S = {} THEN 0 ELSE CHOOSE i \in S : \A j \in S : i <= j

\* add_client without its limit
add_client_always(cs) == TRUE

\* add_client returns an entry: the table is not full
add_client_ok(cs) == client_count(cs) < MAX_CLIENTS

\* the array after add_client; unchanged when the table is full
add_client(cs, socket_fd) ==
    IF add_client_ok(cs) THEN Append(cs, new_client(socket_fd)) ELSE cs

\* remove_client without the move of the last entry into the freed slot
remove_client_no_move(cs, socket_fd) ==
    IF find_client(cs, socket_fd) = 0 THEN cs ELSE SubSeq(cs, 1, Len(cs) - 1)

\* the array after remove_client: the last entry moves into the freed slot
remove_client(cs, socket_fd) ==
    LET i == find_client(cs, socket_fd)
        n == Len(cs)
    IN  IF i = 0 THEN cs
        ELSE [k \in 1..(n - 1) |-> IF k = i THEN cs[n] ELSE cs[k]]

\* remove_client leaving the upload file open
remove_client_closes_none(cs, socket_fd) == 0

\* the streams remove_client closes
remove_client_closes(cs, socket_fd) ==
    LET i == find_client(cs, socket_fd)
    IN  IF i # 0 /\ cs[i].upload_file.open THEN 1 ELSE 0

\* ------------------------------------------------------------ handler state
(* What one call of a handler works on: the client table and the index of   *)
(* the client it found, the disk, the frames sent, the position in the      *)
(* bytes recv returned, the return value once decided, and what the call    *)
(* did: the commands dispatched, the chunk headers accepted with the        *)
(* payload bytes consumed under each, the number of bytes handed to chunk   *)
(* reassembly (fed) and the number shifted out of the command buffer as     *)
(* lines (text).                                                            *)
Call(cs, i, disk, n_open, hlog) ==
    [ clients |-> cs, i |-> i, fs |-> disk, nopen |-> n_open,
      sent |-> <<>>, cmds |-> <<>>, hlog |-> hlog, fed |-> 0, text |-> 0,
      processed |-> 0, ret |-> 0, stop |-> FALSE, fault |-> FALSE, over |-> FALSE ]

Cl(st) == st.clients[st.i]

\* a store through a pointer to the first entry, whichever client was found
SetCl_first(st, c) == [st EXCEPT !.clients[1] = c]

\* a store through the pointer find_client returned
SetCl(st, c) == [st EXCEPT !.clients[st.i] = c]

\* what send() put on the socket: a text line, or raw bytes
TextFrame(s) == [kind |-> "text", text |-> s, data |-> <<>>]

BinFrame(b) == [kind |-> "bin", text |-> "", data |-> b]

Send(st, line) == [st EXCEPT !.sent = Append(@, TextFrame(line))]

SendBytes(st, b) == [st EXCEPT !.sent = Append(@, BinFrame(b))]

Return(st, r) == [st EXCEPT !.ret = r, !.stop = TRUE]

\* received_chunks was just incremented: note whether it is above expected_chunks
Counted(st) ==
    [st EXCEPT !.over = @ \/ Cl(st).received_chunks > Cl(st).expected_chunks]

\* a header was accepted: payload is expected under it
LogHeader(st, h) ==
    [st EXCEPT !.hlog = Append(@, [id |-> hdr_chunk_id(h), size |-> hdr_chunk_size(h), got |-> 0])]

\* n payload bytes were consumed under the header accepted last
LogPayload(st, n) ==
    IF Len(st.hlog) = 0 THEN st
    ELSE [st EXCEPT !.hlog[Len(st.hlog)].got = @ + n]

\* ------------------------------------------------------------ handle_file_transfer
\* the header validation of handle_file_transfer
ft_header_invalid(chunk_size, total_chunks) ==
    \/ chunk_size = 0
    \/ total_chunks = 0
    \/ UGt(chunk_size, MAX_HEADER_CHUNK_SIZE)
    \/ UGt(total_chunks, MAX_TOTAL_CHUNKS)

\* the reset of the client's transfer fields once the last chunk is in
ResetTransfer(c) ==
    [c EXCEPT !.state = 0, !.bytes_in_buffer = 0, !.recv_buffer = <<>>,
              !.header_complete = 0, !.payload_remaining = 0,
              !.expected_chunks = 0, !.received_chunks = 0,
              !.upload_filename = <<>>]

\* fclose(client->upload_file); client->upload_file = NULL, when it is open
CloseUpload(st) ==
    IF Cl(st).upload_file.open
    THEN [SetCl(st, [Cl(st) EXCEPT !.upload_file = NULL]) EXCEPT !.nopen = @ - 1]
    ELSE st

\* a header is complete in recv_buffer: validate it, open the file on chunk 0
ft_header_complete(st) ==
    LET c == Cl(st)
        h == Take(c.recv_buffer, HEADER_SIZE)
        chunk_id == hdr_chunk_id(h)
        chunk_size == hdr_chunk_size(h)
        total_chunks == hdr_total_chunks(h)
        c1 == [c EXCEPT !.current_header = h, !.header_complete = 1]
        path == S_saved_ \o CStr(hdr_filename(h))
    IN  IF ft_header_invalid(chunk_size, total_chunks)
        THEN Return(Send(SetCl(st, [c1 EXCEPT !.state = 0]), MSG_ERR_HEADER), -1)
        ELSE
          LET c2 == [c1 EXCEPT !.payload_remaining = ToInt32(chunk_size)] IN
          IF chunk_id = 0
          THEN IF ~CanCreate(path)
               THEN Return(Send(SetCl(st, [c2 EXCEPT !.upload_file = NULL, !.state = 0]),
                                MSG_ERR_CREATE), -1)
               ELSE LogHeader(
                      [SetCl(st, [c2 EXCEPT
                                    !.upload_file = [open |-> TRUE, path |-> path],
                                    !.upload_filename = CStr(hdr_filename(h)),
                                    !.expected_chunks = total_chunks,
                                    !.received_chunks = 0,
                                    !.bytes_in_buffer = 0,
                                    !.recv_buffer = <<>>])
                        EXCEPT !.fs = fopen_wb(st.fs, path), !.nopen = @ + 1], h)
          ELSE LogHeader(SetCl(st, [c2 EXCEPT !.bytes_in_buffer = 0, !.recv_buffer = <<>>]), h)

\* one pass of the loop while the header is incomplete
header_needed_whole(c) == HEADER_SIZE

\* the bytes a partly received header still lacks
header_needed(c) == HEADER_SIZE - c.bytes_in_buffer

ft_header(st, tmp) ==
    LET c == Cl(st)
        to_copy == Min(Len(tmp) - st.processed, header_needed(c))
        c1 == [c EXCEPT
                 !.recv_buffer = @ \o SubSeq(tmp, st.processed + 1, st.processed + to_copy),
                 !.bytes_in_buffer = @ + to_copy]
        st1 == [SetCl(st, c1) EXCEPT !.processed = @ + to_copy, !.fed = @ + to_copy]
    IN  IF c1.bytes_in_buffer >= HEADER_SIZE THEN ft_header_complete(st1) ELSE st1

\* the last chunk is in: close, report, reset, return
ft_complete(st) ==
    LET st1 == Send(CloseUpload(st), MSG_SUCCESS_UPLOADED)
    IN  Return(SetCl(st1, ResetTransfer(Cl(st1))), 0)

\* one pass of the loop while the header is complete: payload bytes
ft_payload(st, tmp) ==
    LET c == Cl(st)
        to_copy == Min(Len(tmp) - st.processed, c.payload_remaining)
    IN  IF to_copy < 0
        THEN [Return(st, -1) EXCEPT !.fault = TRUE]
        ELSE
          LET data == SubSeq(tmp, st.processed + 1, st.processed + to_copy)
              disk == IF c.upload_file.open THEN fwrite(st.fs, c.upload_file, data) ELSE st.fs
              c1 == [c EXCEPT !.payload_remaining = @ - to_copy]
              st1 == LogPayload([SetCl(st, c1) EXCEPT !.fs = disk,
                                                      !.processed = @ + to_copy,
                                                      !.fed = @ + to_copy], to_copy)
          IN  IF c1.payload_remaining = 0
              THEN LET c2 == [c1 EXCEPT !.received_chunks = @ + 1,
                                        !.header_complete = 0,
                                        !.bytes_in_buffer = 0,
                                        !.recv_buffer = <<>>]
                       st2 == Counted(SetCl(st1, c2))
                   IN  IF c2.received_chunks >= c2.expected_chunks
                       THEN ft_complete(st2)
                       ELSE st2
              ELSE st1

ft_step(st, tmp) ==
    IF Cl(st).header_complete = 0 THEN ft_header(st, tmp) ELSE ft_payload(st, tmp)

RECURSIVE ft_loop(_, _)
\* while (processed < bytes_read)
ft_loop(st, tmp) ==
    IF st.stop \/ st.processed >= Len(tmp) THEN st
    ELSE ft_loop(ft_step(st, tmp), tmp)

\* recv returned 0 or a hard error during a transfer: close the file, return -1
ft_recv_failed(st) ==
    LET st1 == CloseUpload(st)
    IN  Return(SetCl(st1, [Cl(st1) EXCEPT !.state = 0]), -1)

(* handle_file_transfer on what recv gave: "data" with the bytes, "eof" (0),  *)
(* "again" (EAGAIN/EWOULDBLOCK) or "error".                                   *)
handle_file_transfer(st, rc, tmp) ==
    IF st.i = 0 THEN Return(st, -1)
    ELSE CASE rc = "eof" -> ft_recv_failed(st)
           [] rc = "again" -> Return(st, 0)
           [] rc = "error" -> ft_recv_failed(st)
           [] OTHER -> ft_loop(st, tmp)

\* ------------------------------------------------------------ send_file (commands.c)
MAX_RETRIES == 10

\* total_chunks as send_file and start_file_upload compute it
total_chunks_of(fsize) == (fsize + CHUNK_SIZE - 1) \div CHUNK_SIZE

\* fread(buffer, 1, CHUNK_SIZE, fp) as the i-th sequential read of the file
fread_chunk(content, i) ==
    SubSeq(content, i * CHUNK_SIZE + 1, Min((i + 1) * CHUNK_SIZE, Len(content)))

\* chunk_data of send_file's i-th iteration: header, then the bytes read
sf_chunk_data(content, i, total_chunks, filename) ==
    LET buffer == fread_chunk(content, i)
    IN  MakeHeader(i, Len(buffer), total_chunks, StrField(filename, FILENAME_MAX_LEN))
          \o buffer

(* The send loop of one chunk. oracle lists what the next calls of send give: *)
(* n > 0 bytes taken (at most what is left), 0 for EAGAIN/EWOULDBLOCK, -1 for *)
(* a hard error; once it is used up send takes everything.                    *)
\* retry_count after a send that took bytes, were it left as it is
sf_retry_kept(retry_count) == retry_count

\* retry_count = 0 after a send that took bytes
sf_retry_reset(retry_count) == 0

RECURSIVE sf_send(_, _, _, _)
sf_send(data, sent, retry_count, oracle) ==
    IF ~(sent < Len(data) /\ retry_count < MAX_RETRIES)
    THEN [sent |-> sent, oracle |-> oracle, frames |-> <<>>, hard |-> FALSE]
    ELSE
      LET r == IF oracle = <<>> THEN Len(data) - sent ELSE Head(oracle)
          rest == IF oracle = <<>> THEN <<>> ELSE Tail(oracle)
      IN  IF r = 0 THEN sf_send(data, sent, retry_count + 1, rest)
          ELSE IF r < 0
          THEN [sent |-> sent, oracle |-> rest, frames |-> <<>>, hard |-> TRUE]
          ELSE LET n == Min(r, Len(data) - sent)
                   nx == sf_send(data, sent + n, sf_retry_reset(retry_count), rest)
               IN  [nx EXCEPT !.frames = <<BinFrame(SubSeq(data, sent + 1, sent + n))>> \o @]

\* fclose(fp), on each of send_file's ways out
sf_fclose(st) == [st EXCEPT !.nopen = @ - 1]

RECURSIVE sf_chunks(_, _, _, _, _, _)
\* for (i = 0; i < total_chunks; i++): returns on the first chunk not sent whole
sf_chunks(st, content, filename, total_chunks, i, oracle) ==
    IF i >= total_chunks THEN sf_fclose(st)
    ELSE
      LET data == sf_chunk_data(content, i, total_chunks, filename)
          r == sf_send(data, 0, 0, oracle)
          st1 == [st EXCEPT !.sent = @ \o r.frames]
      IN  IF r.hard \/ r.sent < Len(data) THEN sf_fclose(st1)
          ELSE sf_chunks(st1, content, filename, total_chunks, i + 1, r.oracle)

\* send_file without the reply for a file that cannot be opened
send_file_silent(st, filename, oracle) == st

send_file(st, filename, oracle) ==
    IF filename \notin DOMAIN st.fs
    THEN Send(st, MSG_ERR_NOT_FOUND)
    ELSE sf_chunks([st EXCEPT !.nopen = @ + 1], st.fs[filename], filename,
                   total_chunks_of(Len(st.fs[filename])), 0, oracle)

\* ------------------------------------------------------------ process_client_command
\* the two first space-separated tokens of s (strtok), <<>> for a missing one
SkipSpaces(s) ==
    LET S == {i \in 1..Len(s) : s[i] # SPACE}
    IN  IF S = {} THEN <<>> ELSE Drop(s, (CHOOSE i \in S : \A j \in S : i <= j) - 1)

Token(s) ==
    LET t == SkipSpaces(s)
        e == FirstIdx(t, SPACE)
    IN  IF e = 0 THEN t ELSE Take(t, e - 1)

\* strtok giving the same token again
AfterToken_same(s) == s

AfterToken(s) ==
    LET t == SkipSpaces(s)
        e == FirstIdx(t, SPACE)
    IN  IF e = 0 THEN <<>> ELSE Drop(t, e)

\* the filesystem commands are collaborators: their reply and their effect on fs
delete_file(st, name) ==
    IF name \in DOMAIN st.fs
    THEN Send([st EXCEPT !.fs = [p \in (DOMAIN st.fs) \ {name} |-> st.fs[p]]],
              "SUCCESS: File deleted\n")
    ELSE Send(st, "ERROR: Cannot delete file\n")

rename_file(st, old, new) ==
    IF old \in DOMAIN st.fs
    THEN Send([st EXCEPT !.fs = [p \in ((DOMAIN st.fs) \ {old}) \cup {new} |->
                                    IF p = new THEN st.fs[old] ELSE st.fs[p]]],
              "SUCCESS: File renamed\n")
    ELSE Send(st, "ERROR: Cannot rename file\n")

process_client_command(st, command, oracle) ==
    LET st0 == [st EXCEPT !.cmds = Append(@, command)] IN
    IF HasPrefix(command, S_upload)
    THEN SetCl(st0, [Cl(st0) EXCEPT !.state = 1])
    ELSE IF HasPrefix(command, S_get_) THEN send_file(st0, Drop(command, 4), oracle)
    ELSE IF command = S_ls THEN Send(st0, "END_OF_LIST\n")
    ELSE IF command = S_pwd THEN Send(st0, "<cwd>\n")
    ELSE IF HasPrefix(command, S_cd_) THEN Send(st0, "ERROR: Cannot change directory\n")
    ELSE IF HasPrefix(command, S_delete_) THEN delete_file(st0, Drop(command, 7))
    ELSE IF HasPrefix(command, S_rename_)
    THEN LET args == Take(Drop(command, 7), Min(Len(command) - 7, 120))
             old_name == Token(args)
             new_name == Token(AfterToken(args))
         IN  IF old_name # <<>> /\ new_name # <<>>
             THEN rename_file(st0, old_name, new_name)
             ELSE Send(st0, MSG_ERR_RENAME)
    ELSE IF command = S_health THEN Send(st0, "<health>\n")
    ELSE Send(st0, MSG_ERR_UNKNOWN)

\* ------------------------------------------------------------ handle_client_data
\* the first bytes of a command-mode read look like a chunk header
looks_like_header(tmp) ==
    /\ Len(tmp) >= HEADER_SIZE
    /\ LET chunk_size == hdr_chunk_size(tmp)
           total_chunks == hdr_total_chunks(tmp)
       IN  /\ chunk_size # 0
           /\ ~UGt(chunk_size, MAX_HEADER_CHUNK_SIZE)
           /\ total_chunks # 0
           /\ ~UGt(total_chunks, MAX_TOTAL_CHUNKS)

\* the header branch of the loop that runs inside handle_client_data
det_header(st, tmp) ==
    LET c == Cl(st)
        to_copy == Min(Len(tmp) - st.processed, header_needed(c))
        c1 == [c EXCEPT
                 !.recv_buffer = @ \o SubSeq(tmp, st.processed + 1, st.processed + to_copy),
                 !.bytes_in_buffer = @ + to_copy]
        st1 == [SetCl(st, c1) EXCEPT !.processed = @ + to_copy, !.fed = @ + to_copy]
    IN  IF c1.bytes_in_buffer >= HEADER_SIZE
        THEN
          LET h == Take(c1.recv_buffer, HEADER_SIZE)
              path == S_saved_ \o CStr(hdr_filename(h))
              c2 == [c1 EXCEPT !.current_header = h,
                               !.header_complete = 1,
                               !.payload_remaining = ToInt32(hdr_chunk_size(h)),
                               !.bytes_in_buffer = 0,
                               !.recv_buffer = <<>>]
          IN  IF hdr_chunk_id(h) = 0
              THEN IF CanCreate(path)
                   THEN LogHeader(
                          [SetCl(st1, [c2 EXCEPT
                                         !.upload_file = [open |-> TRUE, path |-> path],
                                         !.upload_filename = CStr(hdr_filename(h)),
                                         !.expected_chunks = ToInt32(hdr_total_chunks(h)),
                                         !.received_chunks = 0])
                            EXCEPT !.fs = fopen_wb(st1.fs, path), !.nopen = @ + 1], h)
                   ELSE LogHeader(SetCl(st1, [c2 EXCEPT !.upload_file = NULL]), h)
              ELSE LogHeader(SetCl(st1, c2), h)
        ELSE st1

\* the payload branch of that loop: on the last chunk it resets and goes on
det_payload(st, tmp) ==
    LET c == Cl(st)
        to_copy == Min(Len(tmp) - st.processed, c.payload_remaining)
    IN  IF to_copy < 0
        THEN [Return(st, -1) EXCEPT !.fault = TRUE]
        ELSE
          LET data == SubSeq(tmp, st.processed + 1, st.processed + to_copy)
              disk == IF c.upload_file.open THEN fwrite(st.fs, c.upload_file, data) ELSE st.fs
              c1 == [c EXCEPT !.payload_remaining = @ - to_copy]
              st1 == LogPayload([SetCl(st, c1) EXCEPT !.fs = disk,
                                                      !.processed = @ + to_copy,
                                                      !.fed = @ + to_copy], to_copy)
          IN  IF c1.payload_remaining = 0
              THEN LET c2 == [c1 EXCEPT !.received_chunks = @ + 1,
                                        !.header_complete = 0,
                                        !.bytes_in_buffer = 0,
                                        !.recv_buffer = <<>>]
                       st2 == Counted(SetCl(st1, c2))
                   IN  IF c2.received_chunks >= c2.expected_chunks
                       THEN LET st3 == Send(CloseUpload(st2), MSG_SUCCESS_UPLOADED)
                            IN  SetCl(st3, ResetTransfer(Cl(st3)))
                       ELSE st2
              ELSE st1

det_step(st, tmp) ==
    IF Cl(st).header_complete = 0 THEN det_header(st, tmp) ELSE det_payload(st, tmp)

RECURSIVE det_loop(_, _)
det_loop(st, tmp) ==
    IF st.stop \/ st.processed >= Len(tmp) THEN st
    ELSE det_loop(det_step(st, tmp), tmp)

fits_always(c, bytes_read) == TRUE

\* the read fits the command buffer
fits_buffer(c, bytes_read) == c.buffer_len + bytes_read < BUFFER_SIZE - 1

\* the line that ends at index p, a trailing '\r' left in place
line_command_raw(buffer, p) == Take(buffer, p - 1)

\* the command of the line that ends at index p: without its '\n' and one '\r'
line_command(buffer, p) ==
    LET line == Take(buffer, p - 1)
    IN  IF Len(line) > 0 /\ line[Len(line)] = CR THEN Take(line, Len(line) - 1) ELSE line

\* the buffer once the line that ends at index p is shifted out
shift_buffer(c, p) ==
    LET remaining == c.buffer_len - p
    IN  IF remaining > 0
        THEN [c EXCEPT !.buffer = SubSeq(c.buffer, p + 1, p + remaining),
                       !.buffer_len = remaining]
        ELSE [c EXCEPT !.buffer = <<>>, !.buffer_len = 0]

RECURSIVE cmd_loop(_, _)
\* while ((newline_pos = strchr(client->buffer, '\n')) != NULL)
cmd_loop(st, oracle) ==
    LET p == strchr(Cl(st).buffer, LF)
    IN  IF p = 0 THEN st
        ELSE LET st1 == process_client_command(st, line_command(Cl(st).buffer, p), oracle)
             IN  cmd_loop([SetCl(st1, shift_buffer(Cl(st1), p)) EXCEPT !.text = @ + p],
                          oracle)

(* handle_client_data on what recv gave (see handle_file_transfer); oracle is *)
(* what send gives to a send_file the read may dispatch.                     *)
handle_client_data(st, rc, tmp, oracle) ==
    IF st.i = 0 THEN Return(st, -1)
    ELSE IF Cl(st).state = 1 THEN handle_file_transfer(st, rc, tmp)
    ELSE IF rc # "data" THEN Return(st, -1)
    ELSE IF looks_like_header(tmp)
    THEN LET st1 == det_loop(SetCl(st, [Cl(st) EXCEPT !.state = 1]), tmp)
         IN  IF st1.fault THEN st1 ELSE Return(st1, 0)
    ELSE IF ~fits_buffer(Cl(st), Len(tmp))
    THEN Return(Send(st, MSG_ERR_OVERFLOW), -1)
    ELSE LET c == Cl(st)
             st1 == SetCl(st, [c EXCEPT !.buffer = @ \o tmp,
                                        !.buffer_len = @ + Len(tmp)])
         IN  Return(cmd_loop(st1, oracle), 0)

\* the size of the buffer the handler gives to recv
recv_capacity(cs, fd) ==
    LET i == find_client(cs, fd)
    IN  IF i # 0 /\ cs[i].state = 1 THEN XFER_BUFFER_SIZE ELSE BUFFER_SIZE - 1

\* ------------------------------------------------------------ the server's event loop
NoEvent == [ kind |-> "none", fd |-> 0, ret |-> 0, fault |-> FALSE ]

NoHist ==
    [hlog |-> <<>>, rx |-> 0, fed |-> 0, text |-> 0, cmds |-> <<>>, partial |-> FALSE,
     over |-> FALSE]

\* the event ended inside a chunk: a header or a payload is partly received
InsideChunk(cs, fd) ==
    /\ find_client(cs, fd) # 0
    /\ cs[find_client(cs, fd)].state = 1
    /\ \/ cs[find_client(cs, fd)].bytes_in_buffer > 0
       \/ cs[find_client(cs, fd)].header_complete = 1

Registered(fd) == find_client(clients, fd) # 0

ClientOf(fd) == clients[find_client(clients, fd)]

(* One EPOLLIN event on a client descriptor: handle_client_data, and on -1   *)
(* EPOLL_CTL_DEL, remove_client and close. The result is the handler's state *)
(* with the table and the open streams as the event leaves them.             *)
serve_event(cs, disk, n_open, hlog, fd, rc, tmp, oracle) ==
    LET st == handle_client_data(Call(cs, find_client(cs, fd), disk, n_open, hlog),
                                 rc, tmp, oracle)
    IN  IF st.ret = -1
        THEN [st EXCEPT !.clients = remove_client(st.clients, fd),
                        !.nopen = @ - remove_client_closes(st.clients, fd)]
        ELSE st

\* what the event leaves behind: st is the state serve_event returns
Served(fd, n, st) ==
    /\ clients' = st.clients
    /\ nopen' = st.nopen
    /\ fs' = st.fs
    /\ epoll_set' = IF st.ret = -1 THEN epoll_set \ {fd} ELSE epoll_set
    /\ open_fds' = IF st.ret = -1 THEN open_fds \ {fd} ELSE open_fds
    /\ net_in' = [net_in EXCEPT ![fd] = Drop(@, n)]
    /\ net_out' = [net_out EXCEPT ![fd] = @ \o st.sent]
    /\ hist' = [hist EXCEPT ![fd] = [hlog |-> st.hlog,
                                     rx |-> @.rx + n,
                                     fed |-> @.fed + st.fed,
                                     text |-> @.text + st.text,
                                     cmds |-> @.cmds \o st.cmds,
                                     partial |-> @.partial \/ InsideChunk(st.clients, fd),
                                     over |-> @.over \/ st.over]]
    /\ last' = [ kind |-> "read", fd |-> fd, ret |-> st.ret, fault |-> st.fault ]

\* what send gives to the send_file calls of a scenario: all bytes taken, unless
\* the scenario says otherwise
SendOracleOf(s) == IF "oracle" \in DOMAIN s THEN s.oracle ELSE <<>>

ServeRead(fd, rc, tmp, oracle) ==
    Served(fd, Len(tmp),
           serve_event(clients, fs, nopen, hist[fd].hlog, fd, rc, tmp, oracle))

\* the lengths recv may return for a descriptor with bytes in flight
ReadSizes(fd) ==
    LET most == Min(Len(net_in[fd]), recv_capacity(clients, fd))
    IN  {most} \cup {n \in scn.sizes : n <= most}

SrvRead(fd) ==
    /\ fd \in epoll_set
    /\ ~last.fault
    /\ net_in[fd] # <<>>
    /\ \E n \in ReadSizes(fd) : ServeRead(fd, "data", Take(net_in[fd], n), SendOracleOf(scn))
    /\ UNCHANGED <<peer_open, scn>>

\* recv on a ready descriptor gave no bytes: rc is "eof", "again" or "error"
SrvRecvFails(fd, rc) ==
    /\ fd \in epoll_set
    /\ ~last.fault
    /\ ServeRead(fd, rc, <<>>, <<>>)
    /\ UNCHANGED peer_open

(* handle_new_connection for the descriptor accept returned; how is "ok", or *)
(* "nonblock" / "epoll" when set_nonblocking / epoll_ctl fails. The result   *)
(* is the table and whether the descriptor is left open and watched.         *)
handle_new_connection(cs, client_fd, how) ==
    IF how = "nonblock" THEN [clients |-> cs, ret |-> -1]
    ELSE IF ~add_client_ok(cs) THEN [clients |-> add_client(cs, client_fd), ret |-> -1]
    ELSE IF how = "epoll"
    THEN [clients |-> remove_client(add_client(cs, client_fd), client_fd), ret |-> -1]
    ELSE [clients |-> add_client(cs, client_fd), ret |-> 0]

(* What the peer of an accepted descriptor sends: the scenario's stream if   *)
(* it is one of its talkers, its text if it is one of its chatters.          *)
PeerSends(s, fd) ==
    IF fd \in s.talkers THEN s.stream
    ELSE IF "chatters" \in DOMAIN s /\ fd \in s.chatters THEN s.text
    ELSE <<>>

\* what an accept event leaves behind: r is what handle_new_connection returns
Accepted(fd, r) ==
    /\ clients' = r.clients
    /\ epoll_set' = IF r.ret = 0 THEN epoll_set \cup {fd} ELSE epoll_set
    /\ open_fds' = IF r.ret = 0 THEN open_fds \cup {fd} ELSE open_fds
    /\ peer_open' = [peer_open EXCEPT ![fd] = (r.ret = 0)]
    /\ net_in' = [net_in EXCEPT ![fd] = IF r.ret = 0 THEN PeerSends(scn, fd) ELSE <<>>]
    /\ net_out' = [net_out EXCEPT ![fd] = <<>>]
    /\ hist' = [hist EXCEPT ![fd] = NoHist]
    /\ last' = [kind |-> "accept", fd |-> fd, ret |-> r.ret, fault |-> FALSE]
    /\ UNCHANGED <<fs, nopen>>

\* the lowest descriptor not in use, which is the one accept returns
LowestFree(pool) == CHOOSE fd \in pool \ open_fds : \A g \in pool \ open_fds : fd <= g

\* EPOLLIN on the listening socket
SrvAccept(pool, how) ==
    /\ ~last.fault
    /\ pool \ open_fds # {}
    /\ Accepted(LowestFree(pool), handle_new_connection(clients, LowestFree(pool), how))

\* EPOLLERR or EPOLLHUP on a client descriptor: EPOLL_CTL_DEL, remove_client, close
SrvHangup(fd) ==
    /\ fd \in epoll_set
    /\ ~last.fault
    /\ clients' = remove_client(clients, fd)
    /\ nopen' = nopen - remove_client_closes(clients, fd)
    /\ epoll_set' = epoll_set \ {fd}
    /\ open_fds' = open_fds \ {fd}
    /\ peer_open' = [peer_open EXCEPT ![fd] = FALSE]
    /\ last' = [kind |-> "hup", fd |-> fd, ret |-> -1, fault |-> FALSE]
    /\ UNCHANGED <<fs, net_in, net_out, hist>>

\* ------------------------------------------------------------ client state (epoll_client.c)
VARIABLES
    ts,           \* client: transfer_state
    rs,           \* client: the static variables of receive_file_chunk_epoll
    cli,          \* client: running, no_data_iterations, epoll interest, server_buffer
    cfiles,       \* client: the files on its disk, path -> content
    cnopen,       \* client: FILE streams opened and not yet closed
    sock_in,      \* bytes in flight towards the client
    sock_out,     \* frames the client wrote to its socket
    clog,         \* what the client did: headers of the download, last event
    cscn          \* the client's input scenario

cvars == <<ts, rs, cli, cfiles, cnopen, sock_in, sock_out, clog, cscn>>

vars == <<clients, fs, nopen, epoll_set, open_fds, net_in, peer_open, net_out, hist, last,
          scn, ts, rs, cli, cfiles, cnopen, sock_in, sock_out, clog, cscn>>

STATE_COMMAND == "STATE_COMMAND"
STATE_SENDING == "STATE_SENDING"
STATE_RECEIVING == "STATE_RECEIVING"

\* the size of temp_buffer in the client's socket branch, and of server_buffer
CLIENT_RECV_SIZE == 1024
SERVER_BUFFER_SIZE == 4096

\* a FILE * of the client: NULL, or a stream on a path with a read position
NoFile == [open |-> FALSE, path |-> <<>>, pos |-> 0]

\* the header as transfer_state keeps it, its integers in host order
HostHeader(h) ==
    [chunk_id |-> hdr_chunk_id(h), chunk_size |-> hdr_chunk_size(h),
     total_chunks |-> hdr_total_chunks(h), type |-> hdr_type(h),
     filename |-> hdr_filename(h)]

\* transfer_state after init_transfer_state
init_transfer_state ==
    [ state |-> STATE_COMMAND, file_ptr |-> NoFile, filename |-> <<>>,
      total_chunks |-> 0, current_chunk |-> 0, bytes_written |-> 0, file_size |-> 0,
      buffer_pos |-> 0, header_received |-> 0, current_header |-> HostHeader(ZeroHeader) ]

\* the static variables as their initialisers leave them
StaticsAtStart ==
    [ recv_buffer |-> <<>>, recv_pos |-> 0, expecting_header |-> 1,
      payload_remaining |-> 0, last_chunk_id |-> -1, transfer_active |-> 0 ]

\* the locals of start_epoll_client that outlive one event
ClientAtStart ==
    [ running |-> 1, no_data_iterations |-> 0, interest |-> {"EPOLLIN", "EPOLLOUT"},
      server_buffer |-> <<>>, server_data_len |-> 0, printed |-> <<>> ]

(* What one call into the client's transfer code works on: transfer_state,   *)
(* the statics, the loop's locals, the disk, the frames written to the       *)
(* socket, and the log of                                                    *)
(* headers completed in this download: id, size, whether it was accepted,    *)
(* and the payload bytes copied under it.                                    *)
CCall(t, r, c, disk, n_open, hdrs) ==
    [ ts |-> t, rs |-> r, cli |-> c, files |-> disk, nopen |-> n_open, sent |-> <<>>,
      hdrs |-> hdrs, processed |-> 0, iteration_count |-> 0, ret |-> 0, stop |-> FALSE,
      fault |-> FALSE, over |-> FALSE ]

\* current_chunk was just incremented: note whether it is above total_chunks
CCounted(cst) ==
    [cst EXCEPT !.over = @ \/ cst.ts.current_chunk > cst.ts.total_chunks]

CReturn(cst, r) == [cst EXCEPT !.ret = r, !.stop = TRUE]

CLogHeader(cst, hh, ok) ==
    [cst EXCEPT !.hdrs = Append(@, [id |-> hh.chunk_id, size |-> hh.chunk_size,
                                    ok |-> ok, got |-> 0])]

CLogPayload(cst, n) ==
    IF Len(cst.hdrs) = 0 THEN cst
    ELSE [cst EXCEPT !.hdrs[Len(cst.hdrs)].got = @ + n]

\* fclose(file_ptr) if it is not NULL, as every caller of the transfer code does
CClose(cst) ==
    IF cst.ts.file_ptr.open
    THEN [cst EXCEPT !.ts.file_ptr = NoFile, !.nopen = @ - 1]
    ELSE cst

\* ------------------------------------------------------------ receive_file_chunk_epoll
\* a new download: the statics are reset only when no transfer is marked active
rf_begin(cst) ==
    IF cst.ts.current_chunk = 0 /\ cst.ts.total_chunks = 0 /\ cst.rs.transfer_active = 0
    THEN [cst EXCEPT !.rs = [StaticsAtStart EXCEPT !.transfer_active = 1]]
    ELSE cst

rf_size_any(chunk_size) == FALSE

\* chunk_size > CHUNK_SIZE || chunk_size <= 0
rf_size_invalid(chunk_size) == UGt(chunk_size, CHUNK_SIZE) \/ chunk_size = 0

rf_sequence_any(current_chunk, chunk_id, last_chunk_id) == FALSE

\* current_chunk > 0 && chunk_id != last_chunk_id + 1
rf_sequence_error(current_chunk, chunk_id, last_chunk_id) ==
    current_chunk > 0 /\ chunk_id # last_chunk_id + 1

\* an error return: transfer_active = 0; return -1
rf_fail(cst) == CReturn([cst EXCEPT !.rs.transfer_active = 0], -1)

\* fopen(filename, "wb") fails for the empty name
rf_open(cst, name) ==
    IF name = <<>>
    THEN rf_fail([cst EXCEPT !.ts.file_ptr = NoFile])
    ELSE [cst EXCEPT !.ts.file_ptr = [open |-> TRUE, path |-> name, pos |-> 0],
                     !.files = fopen_wb(cst.files, name),
                     !.nopen = @ + 1]

\* the header in recv_buffer is complete: convert, validate, open on chunk 0
rf_header_complete(cst) ==
    LET hh == HostHeader(Take(cst.rs.recv_buffer, HEADER_SIZE))
        name == Take(CStr(hh.filename), Min(strlen(hh.filename), FILENAME_MAX_LEN - 1))
        c1 == [cst EXCEPT !.ts.current_header = hh]
    IN  IF rf_size_invalid(hh.chunk_size) THEN rf_fail(CLogHeader(c1, hh, FALSE))
        ELSE IF UGt(hh.total_chunks, MAX_TOTAL_CHUNKS) THEN rf_fail(CLogHeader(c1, hh, FALSE))
        ELSE IF rf_sequence_error(c1.ts.current_chunk, hh.chunk_id, c1.rs.last_chunk_id)
        THEN rf_fail(CLogHeader(c1, hh, FALSE))
        ELSE
          LET c2 == CLogHeader([c1 EXCEPT !.rs.last_chunk_id = ToInt32(hh.chunk_id)], hh, TRUE)
              c3 == IF hh.chunk_id = 0
                    THEN rf_open([c2 EXCEPT !.ts.filename = name,
                                            !.ts.total_chunks = ToInt32(hh.total_chunks)],
                                 name)
                    ELSE c2
          IN  IF c3.stop THEN c3
              ELSE [c3 EXCEPT !.rs.expecting_header = 0,
                              !.rs.payload_remaining = ToInt32(hh.chunk_size),
                              !.rs.recv_pos = 0,
                              !.rs.recv_buffer = <<>>]

\* rf_header without the bytes of a header kept from one read to the next
rf_header_unkept(cst, buffer) ==
    LET to_copy == Min(Len(buffer) - cst.processed, HEADER_SIZE - cst.rs.recv_pos)
    IN  IF to_copy < 0 THEN [CReturn(cst, -1) EXCEPT !.fault = TRUE]
        ELSE IF cst.rs.recv_pos + to_copy >= HEADER_SIZE
        THEN rf_header_complete(
               [cst EXCEPT !.rs.recv_buffer =
                               @ \o SubSeq(buffer, cst.processed + 1, cst.processed + to_copy),
                           !.rs.recv_pos = @ + to_copy,
                           !.processed = @ + to_copy])
        ELSE [cst EXCEPT !.processed = @ + to_copy]

\* one pass of the loop while a header is expected
rf_header(cst, buffer) ==
    LET to_copy == Min(Len(buffer) - cst.processed, HEADER_SIZE - cst.rs.recv_pos)
    IN  IF to_copy < 0 THEN [CReturn(cst, -1) EXCEPT !.fault = TRUE]
        ELSE IF cst.rs.recv_pos + to_copy >= HEADER_SIZE
        THEN rf_header_complete(
               [cst EXCEPT !.rs.recv_buffer =
                               @ \o SubSeq(buffer, cst.processed + 1, cst.processed + to_copy),
                           !.rs.recv_pos = @ + to_copy,
                           !.processed = @ + to_copy])
        ELSE [cst EXCEPT !.rs.recv_buffer =
                             @ \o SubSeq(buffer, cst.processed + 1, cst.processed + to_copy),
                         !.rs.recv_pos = @ + to_copy,
                         !.processed = @ + to_copy]

\* the download is complete: the statics are reset for the next one, return 1
rf_complete(cst) ==
    CReturn([cst EXCEPT !.rs = StaticsAtStart], 1)

(* One pass of the loop while payload is expected: the bytes are gathered in *)
(* recv_buffer and written to the file when the chunk is complete.           *)
rf_payload(cst, buffer) ==
    LET to_copy == Min(Len(buffer) - cst.processed, cst.rs.payload_remaining)
    IN  IF to_copy < 0 \/ cst.rs.recv_pos + to_copy > HEADER_SIZE + CHUNK_SIZE
        THEN [CReturn(cst, -1) EXCEPT !.fault = TRUE]
        ELSE IF cst.rs.payload_remaining - to_copy # 0
        THEN CLogPayload(
               [cst EXCEPT !.rs.recv_buffer =
                               @ \o SubSeq(buffer, cst.processed + 1, cst.processed + to_copy),
                           !.rs.recv_pos = @ + to_copy,
                           !.rs.payload_remaining = @ - to_copy,
                           !.processed = @ + to_copy], to_copy)
        ELSE
          LET data == cst.rs.recv_buffer
                        \o SubSeq(buffer, cst.processed + 1, cst.processed + to_copy)
              c1 == CCounted(CLogPayload(
                      [cst EXCEPT !.rs.recv_buffer = data,
                                  !.rs.recv_pos = @ + to_copy,
                                  !.rs.payload_remaining = 0,
                                  !.processed = @ + to_copy,
                                  !.files = IF cst.ts.file_ptr.open
                                            THEN fwrite(@, cst.ts.file_ptr, data) ELSE @,
                                  !.ts.current_chunk = @ + 1], to_copy))
          IN  IF c1.ts.current_chunk >= c1.ts.total_chunks
              THEN rf_complete(c1)
              ELSE [c1 EXCEPT !.rs.expecting_header = 1,
                              !.rs.recv_pos = 0,
                              !.rs.recv_buffer = <<>>]

rf_step(cst, buffer) ==
    IF cst.rs.expecting_header = 1 THEN rf_header(cst, buffer) ELSE rf_payload(cst, buffer)

RECURSIVE rf_loop(_, _)
\* while (processed < bytes_available && iteration_count < max_iterations)
rf_loop(cst, buffer) ==
    IF cst.stop \/ cst.processed >= Len(buffer)
          \/ cst.iteration_count >= 2 * Len(buffer)
    THEN cst
    ELSE rf_loop(rf_step([cst EXCEPT !.iteration_count = @ + 1], buffer), buffer)

\* after the loop: the iteration limit is an error, anything else is "continue"
rf_end(cst, buffer) ==
    IF cst.stop THEN cst
    ELSE IF cst.iteration_count >= 2 * Len(buffer) THEN rf_fail(cst)
    ELSE CReturn(cst, 0)

receive_file_chunk_epoll(cst, buffer) == rf_end(rf_loop(rf_begin(cst), buffer), buffer)

\* ------------------------------------------------------------ send_file_chunk_epoll
\* fread(file_buffer, 1, CHUNK_SIZE, file_ptr)
cfread(files, f) ==
    LET content == IF f.path \in DOMAIN files THEN files[f.path] ELSE <<>>
    IN  SubSeq(content, f.pos + 1, Min(Len(content), f.pos + CHUNK_SIZE))

\* the header of the chunk being sent: the file name only on chunk 0
sc_header(t, bytes_read) ==
    MakeHeader(t.current_chunk, bytes_read, t.total_chunks,
               IF t.current_chunk = 0
               THEN StrField(t.filename, FILENAME_MAX_LEN)
               ELSE Fill(FILENAME_MAX_LEN, NUL))

CSendBytes(cst, b) == [cst EXCEPT !.sent = Append(@, BinFrame(b))]

(* The result of one send: took = -1 when it took all the bytes, else the    *)
(* count it took (0 with would-block or a hard error, more for a short       *)
(* count), and the errno the caller then reads: after a short count errno is *)
(* whatever an earlier call left there.                                      *)
SendAll == [took |-> -1, errno |-> "none"]
WouldBlock == [took |-> 0, errno |-> "EAGAIN"]
HardError == [took |-> 0, errno |-> "EPIPE"]
ShortCount(k, e) == [took |-> k, errno |-> e]

sc_taken(r, len) == IF r.took = -1 THEN len ELSE Min(r.took, len)

\* send(...) != len: -2 when errno says would-block, -1 otherwise
sc_send_failed(cst, r) == CReturn(cst, IF r.errno = "EAGAIN" THEN -2 ELSE -1)

sc_count(cst) ==
    LET c1 == CCounted([cst EXCEPT !.ts.current_chunk = @ + 1])
    IN  CReturn(c1, IF c1.ts.current_chunk >= c1.ts.total_chunks THEN 1 ELSE 0)

sc_payload(cst, data, r2) ==
    LET c1 == IF sc_taken(r2, Len(data)) > 0
              THEN CSendBytes(cst, Take(data, sc_taken(r2, Len(data)))) ELSE cst
    IN  IF sc_taken(r2, Len(data)) # Len(data) THEN sc_send_failed(c1, r2) ELSE sc_count(c1)

sc_send(cst, data, r1, r2) ==
    LET h == sc_header(cst.ts, Len(data))
        c1 == IF sc_taken(r1, Len(h)) > 0
              THEN CSendBytes(cst, Take(h, sc_taken(r1, Len(h)))) ELSE cst
    IN  IF sc_taken(r1, Len(h)) # Len(h) THEN sc_send_failed(c1, r1)
        ELSE sc_payload(c1, data, r2)

(* send_file_chunk_epoll, r1 and r2 being the results of the two sends. The  *)
(* chunk is read from the file before anything is sent.                      *)
send_file_chunk_epoll(cst, r1, r2) ==
    IF ~cst.ts.file_ptr.open THEN CReturn(cst, -1)
    ELSE IF cfread(cst.files, cst.ts.file_ptr) = <<>> THEN CReturn(cst, 0)
    ELSE sc_send([cst EXCEPT !.ts.file_ptr.pos =
                                 @ + Len(cfread(cst.files, cst.ts.file_ptr))],
                 cfread(cst.files, cst.ts.file_ptr), r1, r2)

\* ------------------------------------------------------------ process_user_command
C_send_ == <<115, 101, 110, 100, 32>>
C_list == <<108, 105, 115, 116>>
C_exit == <<101, 120, 105, 116>>
C_help == <<104, 101, 108, 112>>
C_clear == <<99, 108, 101, 97, 114>>

\* snprintf(cmd, sizeof(cmd), ...) into char cmd[256]
Snprintf256(line) == Take(line, Min(Len(line), 255))

\* a send whose result the caller does not look at
CSendLine(cst, line, r) ==
    IF sc_taken(r, Len(line)) > 0 THEN CSendBytes(cst, Take(line, sc_taken(r, Len(line))))
    ELSE cst

\* start_file_download: the get line goes out, the mode stays STATE_COMMAND
start_file_download(cst, filename, r) ==
    CSendLine(cst, Snprintf256(S_get_ \o filename \o <<LF>>), r)

\* start_file_upload: open the source, size it, fill in transfer_state
start_file_upload(cst, filename) ==
    IF filename \notin DOMAIN cst.files THEN CReturn(cst, -1)
    ELSE IF Len(cst.files[filename]) <= 0 THEN CReturn(cst, -1)
    ELSE [cst EXCEPT !.ts.state = STATE_SENDING,
                     !.ts.file_ptr = [open |-> TRUE, path |-> filename, pos |-> 0],
                     !.ts.filename = Take(filename, Min(Len(filename), FILENAME_MAX_LEN - 1)),
                     !.ts.file_size = Len(cst.files[filename]),
                     !.ts.total_chunks = total_chunks_of(Len(cst.files[filename])),
                     !.ts.current_chunk = 0,
                     !.nopen = @ + 1]

pc_idle(t) == FALSE

\* transfer_state->state != STATE_COMMAND: a transfer is already in progress
pc_busy(t) == t.state # STATE_COMMAND

pc_send(cst, filename, r) ==
    LET c1 == start_file_upload(cst, filename)
    IN  IF c1.stop THEN [c1 EXCEPT !.stop = FALSE, !.ret = 0]
        ELSE [CSendLine(c1, S_upload \o <<LF>>, r)
                EXCEPT !.cli.interest = {"EPOLLIN", "EPOLLOUT"}]

\* process_user_command on one input line, r being the result of its send
process_user_command(cst, command, r) ==
    IF HasPrefix(command, S_get_)
    THEN IF Len(command) = Len(S_get_) \/ pc_busy(cst.ts) THEN cst
         ELSE start_file_download(cst, Drop(command, Len(S_get_)), r)
    ELSE IF HasPrefix(command, C_send_)
    THEN IF Len(command) = Len(C_send_) \/ pc_busy(cst.ts) THEN cst
         ELSE pc_send(cst, Drop(command, Len(C_send_)), r)
    ELSE IF command = C_list THEN CSendLine(cst, S_ls \o <<LF>>, r)
    ELSE IF command = S_pwd THEN CSendLine(cst, S_pwd \o <<LF>>, r)
    ELSE IF HasPrefix(command, S_cd_)
    THEN IF Len(command) = Len(S_cd_) THEN cst
         ELSE CSendLine(cst, Snprintf256(command \o <<LF>>), r)
    ELSE IF HasPrefix(command, S_delete_)
    THEN IF Len(command) = Len(S_delete_) THEN cst
         ELSE CSendLine(cst, Snprintf256(command \o <<LF>>), r)
    ELSE IF command = S_health THEN CSendLine(cst, S_health \o <<LF>>, r)
    ELSE cst

\* ------------------------------------------------------------ start_epoll_client
\* any event ends a run of timeouts
ev_any(cst) == [cst EXCEPT !.cli.no_data_iterations = 0]

\* a line on stdin: exit, help, clear, or a command
ev_stdin(cst, command, r) ==
    IF command = <<>> \/ command \in {C_help, C_clear} THEN ev_any(cst)
    ELSE IF command = C_exit THEN [ev_any(cst) EXCEPT !.cli.running = 0]
    ELSE process_user_command(ev_any(cst), command, r)

\* what both callers do with the result of the transfer code
ev_result(cst) ==
    IF cst.ret \in {1, -1} THEN [CClose(cst) EXCEPT !.ts = init_transfer_state] ELSE cst

\* EPOLLOUT while STATE_SENDING
ev_writable(cst, r1, r2) ==
    LET c1 == send_file_chunk_epoll(ev_any(cst), r1, r2)
    IN  IF c1.ret \in {1, -1}
        THEN [ev_result(c1) EXCEPT !.cli.interest = {"EPOLLIN"}]
        ELSE c1

\* the first bytes of a read in STATE_COMMAND look like the header of chunk 0
client_detects(buffer) ==
    /\ Len(buffer) >= HEADER_SIZE
    /\ hdr_chunk_id(buffer) = 0
    /\ hdr_total_chunks(buffer) > 0
    /\ hdr_total_chunks(buffer) < MAX_TOTAL_CHUNKS
    /\ hdr_chunk_size(buffer) > 0
    /\ hdr_chunk_size(buffer) <= CHUNK_SIZE
    /\ hdr_filename(buffer)[1] # NUL

RECURSIVE ev_lines(_)
\* while ((newline_pos = strchr(server_buffer, '\n')) != NULL): print and shift
ev_lines(cst) ==
    IF strchr(cst.cli.server_buffer, LF) = 0 THEN cst
    ELSE LET p == strchr(cst.cli.server_buffer, LF)
         IN  ev_lines([cst EXCEPT
                 !.cli.printed = IF p > 1 THEN Append(@, Take(cst.cli.server_buffer, p - 1))
                                 ELSE @,
                 !.cli.server_buffer = Drop(@, p),
                 !.cli.server_data_len = @ - p])

\* a text response: append it if it fits, then print the complete lines
ev_text(cst, buffer) ==
    IF cst.cli.server_data_len + Len(buffer) < SERVER_BUFFER_SIZE - 1
    THEN ev_lines([cst EXCEPT !.cli.server_buffer = @ \o buffer,
                              !.cli.server_data_len = @ + Len(buffer)])
    ELSE ev_lines(cst)

\* EPOLLIN on the socket, recv having returned the bytes of buffer
ev_readable(cst, buffer) ==
    IF cst.ts.state = STATE_RECEIVING
    THEN ev_result(receive_file_chunk_epoll(ev_any(cst), buffer))
    ELSE IF cst.ts.state = STATE_COMMAND /\ client_detects(buffer)
    THEN ev_result(receive_file_chunk_epoll(
                     [ev_any(cst) EXCEPT !.ts.state = STATE_RECEIVING,
                                         !.ts.current_chunk = 0,
                                         !.ts.total_chunks = 0,
                                         !.ts.filename = <<>>,
                                         !.hdrs = <<>>], buffer))
    ELSE ev_text(ev_any(cst), buffer)

\* epoll_wait timed out while STATE_RECEIVING
ev_timeout(cst) ==
    LET c1 == [cst EXCEPT !.cli.no_data_iterations = @ + 1]
    IN  IF c1.cli.no_data_iterations >= (IF c1.ts.total_chunks > 100000 THEN 10 ELSE 5)
        THEN [CClose(c1) EXCEPT !.ts = init_transfer_state]
        ELSE c1

\* ------------------------------------------------------------ input scenarios
\* the longest chunk stream of a scenario, and the largest payload in it
MaxChunks == 2
MaxPayload == 2

\* the descriptors accept hands out in this model
Fds == {5}

NameField(name) == StrField(name, FILENAME_MAX_LEN)

\* the n payload bytes of chunk id: distinct values, none of them a text byte
Payload(id, n) == [j \in 1..n |-> 128 + ((16 * id + j) % 100)]

(* A chunk as a scenario describes it: the header fields, the name and the   *)
(* number n of payload bytes that follow the header on the wire.             *)
Ch(id, size, total, name, n) ==
    [id |-> id, size |-> size, total |-> total, name |-> name, n |-> n]

ChunkBytes(ch) ==
    MakeHeader(ch.id, ch.size, ch.total, NameField(ch.name)) \o Payload(ch.id, ch.n)

RECURSIVE StreamOf(_)
StreamOf(chunks) ==
    IF chunks = <<>> THEN <<>> ELSE ChunkBytes(Head(chunks)) \o StreamOf(Tail(chunks))

N_a == <<97>>
N_b == <<98>>

\* a valid stream: ids 0..n-1, chunk k with 1 + (k + p) % MaxPayload payload bytes
ValidChunks(n, total, p) ==
    [k \in 1..n |->
        Ch(k - 1, 1 + ((k + p) % MaxPayload), total, IF k = 1 THEN N_a ELSE <<>>,
           1 + ((k + p) % MaxPayload))]

\* the read lengths tried on a stream longer than AllSplits bytes
AllSplits == 90
SplitSizes == {1, 2, 3, 5, 16, 40, 79, 80, 81, 82, 83, 84, 160, 161, 162, 163, 164}
LineSizes == {1, 16, 512, BUFFER_SIZE - 2}

SizesFor(stream) ==
    IF Len(stream) <= AllSplits THEN 1..Len(stream) ELSE SplitSizes

Scenario(kind, state, chunks, stream, sizes) ==
    [kind |-> kind, state |-> state, chunks |-> chunks, stream |-> stream, sizes |-> sizes]

\* in file-transfer mode, a valid stream, complete or one chunk short
\* a full chunk of CHUNK_SIZE bytes and a short last one
FullChunks ==
    << Ch(0, CHUNK_SIZE, 2, N_a, CHUNK_SIZE), Ch(1, MaxPayload, 2, <<>>, MaxPayload) >>

FullSizes == SplitSizes \cup {CHUNK_SIZE, HEADER_SIZE + CHUNK_SIZE, 2 * HEADER_SIZE + CHUNK_SIZE}

TransferScenarios ==
    { Scenario("transfer", 1, ValidChunks(n, n + more, p),
               StreamOf(ValidChunks(n, n + more, p)),
               SizesFor(StreamOf(ValidChunks(n, n + more, p)))) :
        n \in 1..MaxChunks, more \in 0..1, p \in 1..MaxPayload }
      \cup { Scenario("transfer", 1, FullChunks, StreamOf(FullChunks), FullSizes) }

\* in file-transfer mode, streams whose chunk ids are not 0, 1, 2, ...
BadSeqChunks ==
    { << Ch(0, 1, 5, N_a, 1), Ch(1, 1, 5, <<>>, 1), Ch(3, 1, 5, <<>>, 1) >>,
      << Ch(0, 1, 2, N_a, 1), Ch(0, 1, 2, N_b, 1) >>,
      << Ch(0, 1, 3, N_a, 1), Ch(1, 1, 3, <<>>, 1), Ch(1, 1, 3, <<>>, 1) >>,
      << Ch(1, 2, 1, N_a, 2) >> }

BadSeqScenarios ==
    { Scenario("badseq", 1, cs, StreamOf(cs), SizesFor(StreamOf(cs))) : cs \in BadSeqChunks }

\* in file-transfer mode, headers whose chunk_size is 0 or above CHUNK_SIZE
BadSizeChunks ==
    { << Ch(0, CHUNK_SIZE + 1, 1, N_a, 2) >>,
      << Ch(0, 0, 1, N_a, 2) >>,
      << Ch(0, MAX_HEADER_CHUNK_SIZE + 1, 1, N_a, 2) >>,
      << Ch(0, 1, 2, N_a, 1), Ch(1, CHUNK_SIZE + 1, 2, <<>>, 2) >>,
      << Ch(0, 1, 2, N_a, 1), Ch(1, 0, 2, <<>>, 2) >>,
      << Ch(0, 1, 2, N_a, 1), Ch(1, MAX_HEADER_CHUNK_SIZE + 1, 2, <<>>, 2) >> }

BadSizeScenarios ==
    { Scenario("badsize", 1, cs, StreamOf(cs), SizesFor(StreamOf(cs))) : cs \in BadSizeChunks }

\* in file-transfer mode, a first chunk with an empty name: fopen("saved/") fails
NoCreateChunks == << Ch(0, 1, 1, <<>>, 1) >>

NoCreateScenarios ==
    { Scenario("nocreate", 1, NoCreateChunks, StreamOf(NoCreateChunks),
               SizesFor(StreamOf(NoCreateChunks))) }

\* in command mode, the upload line and then a valid stream
UploadScenarios ==
    { Scenario("upload", 0, ValidChunks(n, n, 1),
               S_upload \o <<LF>> \o StreamOf(ValidChunks(n, n, 1)),
               SplitSizes \cup {7, 8, 87, 88}) :
        n \in 1..MaxChunks }

\* in command mode, chunk streams that no upload line announces
RawScenarios ==
    { Scenario("raw", 0, cs, StreamOf(cs), SizesFor(StreamOf(cs))) :
        cs \in { ValidChunks(MaxChunks, MaxChunks, 1),
                 << Ch(0, 1, 2, N_a, 1), Ch(1, CHUNK_SIZE + 1, 2, <<>>, 2) >>,
                 << Ch(0, 1, 2, N_a, 1), Ch(1, MAX_HEADER_CHUNK_SIZE + 1, 2, <<>>, 2) >>,
                 << Ch(0, 1, 2, N_a, 1), Ch(1, 0, 2, <<>>, 2) >> } }

\* in command mode, text: short commands, and lines longer than the buffer
S_text == S_ls \o <<CR, LF>> \o S_pwd \o <<LF>> \o <<120, LF>> \o S_upload \o <<LF>>

LongLine(n) == Fill(n, 97)

TextScenarios ==
    { Scenario("text", 0, <<>>, S_text, SizesFor(S_text)),
      Scenario("overflow", 0, <<>>, LongLine(BUFFER_SIZE + 16), LineSizes),
      Scenario("overflow", 0, <<>>,
               LongLine(BUFFER_SIZE - 16) \o <<LF>> \o S_ls \o <<LF>> \o LongLine(16),
               LineSizes) }

\* in command mode, as many ls lines as one recv can return, read by one recv
S_flood == [i \in 1..(BUFFER_SIZE - 1) |-> (S_ls \o <<LF>>)[1 + ((i - 1) % 3)]]

FloodScenarios == { Scenario("flood", 0, <<>>, S_flood, {BUFFER_SIZE - 1}) }

\* lines the server has no command for, and rename lines with one name or none
S_errs ==
    <<120, LF>> \o S_rename_ \o N_a \o <<LF, LF>> \o S_rename_ \o <<SPACE, CR, LF>>
      \o <<108, 115, 120, LF>>

ErrScenarios == { Scenario("errs", 0, <<>>, S_errs, SizesFor(S_errs)) }

\* the file the server's disk holds when a scenario of get commands starts
StoredFile == [i \in 1..(CHUNK_SIZE + MaxPayload) |-> 128 + (i % 100)]

\* the server's disk when the scenario starts
DiskAtStart(kind) == IF kind \in {"get", "sendfail"} THEN (N_b :> StoredFile) ELSE << >>

\* in command mode, get commands for a file that is missing and one that exists
S_gets ==
    S_get_ \o N_a \o <<LF>> \o S_get_ \o N_b \o <<CR, LF>> \o S_ls \o <<LF>>
      \o S_get_ \o N_a \o <<LF>>

GetScenarios == { Scenario("get", 0, <<>>, S_gets, SizesFor(S_gets)) }

\* n calls of send in a row that would block
Blocked(n) == [i \in 1..n |-> 0]

\* the bytes of the stored file's first chunk on the wire
FirstChunkLen == HEADER_SIZE + CHUNK_SIZE

(* What send gives while the stored file is sent: the bytes it takes, 0 for *)
(* EAGAIN and -1 for a hard error, call after call.                         *)
SendOracles ==
    { Blocked(MAX_RETRIES), Blocked(MAX_RETRIES - 1), << -1 >>, << 0, -1 >>,
      <<40>> \o Blocked(MAX_RETRIES),
      <<40>> \o Blocked(MAX_RETRIES - 1) \o <<40>> \o Blocked(MAX_RETRIES - 1),
      <<FirstChunkLen>> \o Blocked(MAX_RETRIES),
      <<FirstChunkLen, -1>>,
      Blocked(5) \o <<FirstChunkLen>> \o Blocked(MAX_RETRIES - 1),
      <<40, -1>> }

\* in command mode, a get for the stored file and then pwd, while send fails
S_getb == S_get_ \o N_b \o <<LF>> \o S_pwd \o <<LF>>

SendFailScenarios ==
    { [kind |-> "sendfail", state |-> 0, chunks |-> <<>>, stream |-> S_getb,
       sizes |-> {Len(S_get_ \o N_b) + 1}, oracle |-> o] : o \in SendOracles }

(* a complete one-chunk upload with a pwd line right behind it, sent to a    *)
(* connection in file-transfer mode, or to one in command mode whose first  *)
(* read holds at least the header                                           *)
TrailChunks == ValidChunks(1, 1, 1)

S_trail == S_pwd \o <<LF>>

TrailScenarios ==
    { Scenario("trail", 1, TrailChunks, StreamOf(TrailChunks) \o S_trail,
               1..(Len(StreamOf(TrailChunks)) + Len(S_trail))),
      Scenario("trail", 0, TrailChunks, StreamOf(TrailChunks) \o S_trail,
               Len(StreamOf(TrailChunks))..(Len(StreamOf(TrailChunks)) + Len(S_trail))) }

Scenarios ==
    TransferScenarios \cup BadSeqScenarios \cup BadSizeScenarios
      \cup UploadScenarios \cup RawScenarios \cup TextScenarios \cup GetScenarios
      \cup NoCreateScenarios \cup ErrScenarios \cup TrailScenarios \cup FloodScenarios
      \cup SendFailScenarios

\* ------------------------------------------------------------ the client's input scenarios
\* how many lines the user types in a scenario
MaxUserCmds == 1

N_f == <<102>>

\* the i-th byte of a source file
FileByte(i) == 128 + (i % 100)

FileOfSize(n) == [i \in 1..n |-> FileByte(i)]

\* the chunks send_file makes of a file: every header carries the name
ServerChunks(n, p) ==
    [k \in 1..n |->
        Ch(k - 1, 1 + ((k + p) % MaxPayload), n, N_a, 1 + ((k + p) % MaxPayload))]

CScenario(kind, chunks, sizes, cmds, ncmd, results, stall, files) ==
    [kind |-> kind, chunks |-> chunks, stream |-> StreamOf(chunks), sizes |-> sizes,
     cmds |-> cmds, ncmd |-> ncmd, results |-> results, stall |-> stall, files |-> files]

UserTransfers == {S_get_ \o N_a, C_send_ \o N_f}

SmallFile == (N_f :> FileOfSize(3))

\* downloads of valid streams, cut in every way
DownloadScenarios ==
    { CScenario("download", ServerChunks(n, p), SizesFor(StreamOf(ServerChunks(n, p))),
                UserTransfers, MaxUserCmds, {SendAll}, FALSE, SmallFile) :
        n \in 1..MaxChunks, p \in 1..MaxPayload }

\* the download of a file of one full chunk and a short last one
FullDownloadChunks ==
    << Ch(0, CHUNK_SIZE, 2, N_a, CHUNK_SIZE), Ch(1, MaxPayload, 2, N_a, MaxPayload) >>

FullDownloadScenarios ==
    { CScenario("download", FullDownloadChunks, FullSizes, {}, 0, {SendAll}, FALSE,
                SmallFile) }

\* streams with a gap or a duplicate in the chunk ids
GapChunks ==
    { << Ch(0, 1, 5, N_a, 1), Ch(1, 1, 5, N_a, 1), Ch(3, 1, 5, N_a, 1) >>,
      << Ch(0, 1, 2, N_a, 1), Ch(0, 1, 2, N_a, 1) >>,
      << Ch(0, 1, 3, N_a, 1), Ch(1, 1, 3, N_a, 1), Ch(1, 1, 3, N_a, 1) >>,
      << Ch(0, 2, 3, N_a, 2), Ch(2, 1, 3, N_a, 1) >> }

GapScenarios ==
    { CScenario("gap", cs, SizesFor(StreamOf(cs)), UserTransfers, MaxUserCmds,
                {SendAll}, FALSE, SmallFile) : cs \in GapChunks }

\* streams with a chunk_size of 0 or above CHUNK_SIZE after the first chunk
OversizeChunks ==
    { << Ch(0, 1, 2, N_a, 1), Ch(1, 0, 2, N_a, 2) >>,
      << Ch(0, 1, 2, N_a, 1), Ch(1, CHUNK_SIZE + 1, 2, N_a, 2) >>,
      << Ch(0, 2, 3, N_a, 2), Ch(1, 1, 3, N_a, 1), Ch(2, MAX_HEADER_CHUNK_SIZE, 3, N_a, 2) >> }

OversizeScenarios ==
    { CScenario("oversize", cs, SizesFor(StreamOf(cs)), UserTransfers, MaxUserCmds,
                {SendAll}, FALSE, SmallFile) : cs \in OversizeChunks }

\* downloads that may stall for ten seconds at a time, in a client that has
\* completed an upload before
StallSizes == {40, 80, 81, 120}

(* send_file gave up after the header of a full first chunk (its retries ran *)
(* out), and the server then answers a second get with a one-chunk stream   *)
RestartChunks == << Ch(0, CHUNK_SIZE, 2, N_a, 0), Ch(0, 1, 1, N_a, 1) >>

StallScenarios ==
    { CScenario("stall", cs, StallSizes, {}, 0, {SendAll}, TRUE, SmallFile) :
        cs \in { ServerChunks(MaxChunks, 1),
                 << Ch(0, 1, 5, N_a, 1), Ch(1, 1, 5, N_a, 1), Ch(3, 1, 5, N_a, 1) >>,
                 RestartChunks } }

\* uploads of files of 1, CHUNK_SIZE, CHUNK_SIZE + 1, ... bytes
SendResults ==
    {SendAll, WouldBlock, HardError, ShortCount(40, "EAGAIN"), ShortCount(40, "EPIPE")}

UploadSizes == {1, CHUNK_SIZE, CHUNK_SIZE + 1, 2 * CHUNK_SIZE + MaxPayload}

UploadScenario(n, results) ==
    CScenario("upload", <<>>, {}, UserTransfers \cup {C_list}, MaxUserCmds + 1,
              results, FALSE, (N_f :> FileOfSize(n)))

ClientUploadScenarios ==
    { UploadScenario(n, {SendAll}) : n \in UploadSizes }
      \cup { UploadScenario(n, SendResults) : n \in {1, CHUNK_SIZE + 1} }

\* first chunks that announce MAX_TOTAL_CHUNKS chunks, one fewer and one more
EdgeTotals == {MAX_TOTAL_CHUNKS - 1, MAX_TOTAL_CHUNKS, MAX_TOTAL_CHUNKS + 1}

EdgeScenarios ==
    { CScenario("edge", << Ch(0, 1, total, N_a, 1) >>, {HEADER_SIZE}, {}, 0, {SendAll},
                FALSE, SmallFile) : total \in EdgeTotals }

ClientScenarios ==
    DownloadScenarios \cup GapScenarios \cup OversizeScenarios \cup StallScenarios
      \cup ClientUploadScenarios \cup FullDownloadScenarios \cup EdgeScenarios

\* ------------------------------------------------------------ specification
TheFd == CHOOSE fd \in Fds : TRUE

\* the table with the one connection add_client stored, in the given mode
InitClients(state) == << [new_client(TheFd) EXCEPT !.state = state] >>

\* ------------------------------------------------------------ the client's events
NoClientEvent == [kind |-> "none", cmd |-> <<>>, ret |-> 0, fault |-> FALSE]

NoCLog == [hdrs |-> <<>>, ev |-> NoClientEvent, ncmd |-> 0, over |-> FALSE]

\* what a client event leaves behind: cst is the state its handler returns
CServed(kind, cmd, cst) ==
    /\ ts' = cst.ts
    /\ rs' = cst.rs
    /\ cli' = cst.cli
    /\ cfiles' = cst.files
    /\ cnopen' = cst.nopen
    /\ sock_out' = sock_out \o cst.sent
    /\ clog' = [hdrs |-> cst.hdrs,
                ev |-> [kind |-> kind, cmd |-> cmd, ret |-> cst.ret, fault |-> cst.fault],
                ncmd |-> clog.ncmd + (IF kind = "user" THEN 1 ELSE 0),
                over |-> clog.over \/ cst.over]

CNow == CCall(ts, rs, cli, cfiles, cnopen, clog.hdrs)

ClientAlive == cli.running = 1 /\ ~clog.ev.fault

\* the lengths recv may return to the client
CReadSizes ==
    {Min(Len(sock_in), CLIENT_RECV_SIZE - 1)}
        \cup {n \in cscn.sizes : n <= Min(Len(sock_in), CLIENT_RECV_SIZE - 1)}

\* the socket is readable; while STATE_SENDING with EPOLLOUT set the write wins
ClientReads ==
    /\ ClientAlive
    /\ sock_in # <<>>
    /\ ~(ts.state = STATE_SENDING /\ "EPOLLOUT" \in cli.interest)
    /\ \E n \in CReadSizes :
          /\ CServed("read", <<>>, ev_readable(CNow, Take(sock_in, n)))
          /\ sock_in' = Drop(sock_in, n)
    /\ UNCHANGED cscn

\* the socket is writable while STATE_SENDING
ClientWritesOf(results) ==
    /\ ClientAlive
    /\ ts.state = STATE_SENDING
    /\ "EPOLLOUT" \in cli.interest
    /\ \E r1 \in results, r2 \in results :
          CServed("write", <<>>, ev_writable(CNow, r1, r2))
    /\ UNCHANGED <<sock_in, cscn>>

ClientWrites == ClientWritesOf(cscn.results)

\* the user types a line
ClientUser ==
    /\ ClientAlive
    /\ clog.ncmd < cscn.ncmd
    /\ \E command \in cscn.cmds : CServed("user", command, ev_stdin(CNow, command, SendAll))
    /\ UNCHANGED <<sock_in, cscn>>

(* The socket of a client that is not uploading has room in its send buffer, *)
(* so a wait with EPOLLOUT registered returns at once: epoll_wait can only   *)
(* time out when the socket is registered for EPOLLIN alone.                 *)
wait_times_out(c) == "EPOLLOUT" \notin c.interest

\* the socket is writable while the client is not STATE_SENDING: the event
\* runs no handler and only resets no_data_iterations
ClientWakes ==
    /\ ClientAlive
    /\ ts.state # STATE_SENDING
    /\ "EPOLLOUT" \in cli.interest
    /\ cli' = ev_any(CNow).cli
    /\ UNCHANGED <<ts, rs, cfiles, cnopen, sock_in, sock_out, clog, cscn>>

\* ten seconds pass without an event while STATE_RECEIVING
ClientTimeout ==
    /\ ClientAlive
    /\ ts.state = STATE_RECEIVING
    /\ wait_times_out(cli)
    /\ cscn.stall
    /\ CServed("timeout", <<>>, ev_timeout(CNow))
    /\ UNCHANGED <<sock_in, cscn>>

\* ------------------------------------------------------------ specifications
NoScenario == Scenario("none", 0, <<>>, <<>>, {})

NoClientScenario ==
    [kind |-> "none", chunks |-> <<>>, stream |-> <<>>, sizes |-> {}, cmds |-> {},
     ncmd |-> 0, results |-> {}, stall |-> FALSE, files |-> << >>]

(* The socket's events as the scenario begins: as registered at start-up, or *)
(* EPOLLIN alone in a client that has an upload behind it.                   *)
InterestAtStart(uploaded) ==
    IF uploaded THEN {"EPOLLIN"} ELSE {"EPOLLIN", "EPOLLOUT"}

\* the client just connected, given its scenario
ClientInit ==
    /\ ts = init_transfer_state
    /\ rs = StaticsAtStart
    /\ cli = [ClientAtStart EXCEPT !.interest = InterestAtStart(cscn.stall)]
    /\ cfiles = cscn.files
    /\ cnopen = 0
    /\ sock_in = cscn.stream
    /\ sock_out = <<>>
    /\ clog = NoCLog

\* one accepted connection, in command mode or switched to file-transfer mode
ServerInit ==
    /\ clients = InitClients(scn.state)
    /\ fs = DiskAtStart(scn.kind)
    /\ nopen = 0
    /\ epoll_set = Fds
    /\ open_fds = Fds
    /\ net_in = [fd \in Fds |-> scn.stream]
    /\ peer_open = [fd \in Fds |-> TRUE]
    /\ net_out = [fd \in Fds |-> <<>>]
    /\ hist = [fd \in Fds |-> NoHist]
    /\ last = NoEvent

\* the server and the byte streams its peer sends
Init ==
    /\ scn \in Scenarios
    /\ ServerInit
    /\ cscn = NoClientScenario
    /\ ClientInit

Next == \E fd \in Fds : SrvRead(fd) /\ UNCHANGED cvars

Spec == Init /\ [][Next]_vars

\* the client alone, the server's stream being the scenario's
InitClient ==
    /\ cscn \in ClientScenarios
    /\ ClientInit
    /\ scn = NoScenario
    /\ ServerInit

NextClient ==
    \/ ClientReads /\ UNCHANGED svars
    \/ ClientWrites /\ UNCHANGED svars
    \/ ClientUser /\ UNCHANGED svars
    \/ ClientTimeout /\ UNCHANGED svars
    \/ ClientWakes /\ UNCHANGED svars

SpecClient == InitClient /\ [][NextClient]_vars

\* ------------------------------------------------------------ connections
MaxCloses == 1

\* one descriptor more than the table has entries
FdPool == 5..(5 + MAX_CLIENTS)

\* the peer of the first descriptor begins an upload and leaves it unfinished,
\* the peer of the second sends a command
ConnStream == ChunkBytes(Ch(0, 2, 2, N_a, 1))

ConnScenario ==
    [kind |-> "conn", state |-> 0, chunks |-> <<>>, stream |-> ConnStream, sizes |-> {},
     talkers |-> {5}, closes |-> MaxCloses, chatters |-> {6}, text |-> S_pwd \o <<LF>>]

\* the server listening, nobody connected
InitConn ==
    /\ scn = ConnScenario
    /\ clients = <<>>
    /\ fs = << >>
    /\ nopen = 0
    /\ epoll_set = {}
    /\ open_fds = {}
    /\ net_in = [fd \in FdPool |-> <<>>]
    /\ peer_open = [fd \in FdPool |-> FALSE]
    /\ net_out = [fd \in FdPool |-> <<>>]
    /\ hist = [fd \in FdPool |-> NoHist]
    /\ last = NoEvent
    /\ cscn = NoClientScenario
    /\ ClientInit

\* a connection that goes away uses up one of the scenario's closes
Closing == scn' = [scn EXCEPT !.closes = @ - (Len(clients) - Len(clients'))]

NextConn ==
    \/ \E how \in {"ok", "nonblock", "epoll"} :
          SrvAccept(FdPool, how) /\ UNCHANGED scn /\ UNCHANGED cvars
    \/ \E fd \in FdPool : SrvRead(fd) /\ UNCHANGED cvars
    \/ \E fd \in FdPool, rc \in {"eof", "again", "error"} :
          scn.closes > 0 /\ SrvRecvFails(fd, rc) /\ Closing /\ UNCHANGED cvars
    \/ \E fd \in FdPool : scn.closes > 0 /\ SrvHangup(fd) /\ Closing /\ UNCHANGED cvars

SpecConn == InitConn /\ [][NextConn]_vars

\* ------------------------------------------------------------ the listen queue
\* how many connections may wait in the listen queue
MaxPending == 2

\* nobody sends anything; pending counts the connections not yet accepted
BacklogScenario ==
    [kind |-> "backlog", state |-> 0, chunks |-> <<>>, stream |-> <<>>, sizes |-> {},
     talkers |-> {}, closes |-> MaxCloses, pending |-> 0]

InitBacklog ==
    /\ scn = BacklogScenario
    /\ clients = <<>>
    /\ fs = << >>
    /\ nopen = 0
    /\ epoll_set = {}
    /\ open_fds = {}
    /\ net_in = [fd \in FdPool |-> <<>>]
    /\ peer_open = [fd \in FdPool |-> FALSE]
    /\ net_out = [fd \in FdPool |-> <<>>]
    /\ hist = [fd \in FdPool |-> NoHist]
    /\ last = NoEvent
    /\ cscn = NoClientScenario
    /\ ClientInit

\* a peer connects: the kernel queues the connection
PeerConnects ==
    /\ scn.pending < MaxPending
    /\ scn' = [scn EXCEPT !.pending = @ + 1]
    /\ UNCHANGED <<clients, fs, nopen, epoll_set, open_fds, net_in, peer_open, net_out,
                   hist, last>>

\* the listening socket is ready: one call of handle_new_connection, one accept
SrvListenReady(how) ==
    /\ scn.pending > 0
    /\ SrvAccept(FdPool, how)
    /\ scn' = [scn EXCEPT !.pending = @ - 1]

\* a client hangs up
SrvPeerGone(fd) ==
    /\ scn.closes > 0
    /\ SrvHangup(fd)
    /\ scn' = [scn EXCEPT !.closes = @ - 1]

NextBacklog ==
    \/ PeerConnects /\ UNCHANGED cvars
    \/ \E how \in {"ok", "nonblock", "epoll"} : SrvListenReady(how) /\ UNCHANGED cvars
    \/ \E fd \in FdPool : SrvPeerGone(fd) /\ UNCHANGED cvars

SpecBacklog == InitBacklog /\ [][NextBacklog]_vars

\* ------------------------------------------------------------ client and server
E2EChunks == 10

\* a file of E2EChunks chunks, the last of one byte
E2EFile == FileOfSize((E2EChunks - 1) * CHUNK_SIZE + 1)

E2EClientScenario ==
    CScenario("e2e", <<>>, {}, {C_send_ \o N_f}, 1, {SendAll}, FALSE, (N_f :> E2EFile))

\* the transport delivers all that is in flight or only as many bytes as a full chunk has
E2EScenario == Scenario("e2e", 0, <<>>, <<>>, {HEADER_SIZE + CHUNK_SIZE})

RECURSIVE Flatten(_)
Flatten(frames) ==
    IF frames = <<>> THEN <<>> ELSE Head(frames).data \o Flatten(Tail(frames))

\* the frames the client wrote in this step are in flight towards the server
Delivered ==
    /\ net_in' = [net_in EXCEPT ![TheFd] =
                     @ \o Flatten(SubSeq(sock_out', Len(sock_out) + 1, Len(sock_out')))]
    /\ UNCHANGED <<clients, fs, nopen, epoll_set, open_fds, peer_open, net_out, hist,
                   last, scn>>

\* send takes everything while the server holds the connection open
E2EResults == IF TheFd \in open_fds THEN {SendAll} ELSE {SendAll, HardError}

\* the server's replies stay in net_out: the client of this upload reads none
InitE2E ==
    /\ cscn = E2EClientScenario
    /\ ClientInit
    /\ scn = E2EScenario
    /\ ServerInit

NextE2E ==
    \/ ClientUser /\ Delivered
    \/ ClientWritesOf(E2EResults) /\ Delivered
    \/ \E fd \in Fds : SrvRead(fd) /\ UNCHANGED cvars

SpecE2E == InitE2E /\ [][NextE2E]_vars

\* ------------------------------------------------------------ C1
\* the same chunks read one whole chunk per recv
RefAfter(r, st) ==
    [clients |-> st.clients, fs |-> st.fs, nopen |-> st.nopen,
     out |-> r.out \o st.sent, hlog |-> st.hlog]

RECURSIVE RefRun(_, _)
RefRun(r, chunks) ==
    IF chunks = <<>> \/ find_client(r.clients, TheFd) = 0 THEN r
    ELSE RefRun(RefAfter(r, serve_event(r.clients, r.fs, r.nopen, r.hlog, TheFd,
                                        "data", ChunkBytes(Head(chunks)), <<>>)),
                Tail(chunks))

RefStart(state) ==
    [clients |-> InitClients(state), fs |-> << >>, nopen |-> 0, out |-> <<>>, hlog |-> <<>>]

SameAsRef(r) ==
    /\ clients = r.clients
    /\ fs = r.fs
    /\ nopen = r.nopen
    /\ net_out[TheFd] = r.out

(* C1: for a connection already in file-transfer mode and a valid chunk      *)
(* stream (ids 0..N-1, 0 < chunk_size <= CHUNK_SIZE), however recv cuts the  *)
(* stream, once all of it is read the client record, the file written, the   *)
(* open streams and the replies sent (SUCCESS or none) are those of reading  *)
(* the stream one whole chunk at a time.                                     *)
C1_FragmentationIndependent ==
    (scn.kind = "transfer" /\ net_in[TheFd] = <<>>)
        => SameAsRef(RefRun(RefStart(1), scn.chunks))

\* a two-chunk upload read in pieces that cut a chunk, finished with SUCCESS
C1_Witness ==
    /\ scn.kind = "transfer"
    /\ Len(scn.chunks) >= 2
    /\ net_in[TheFd] = <<>>
    /\ hist[TheFd].partial
    /\ net_out[TheFd] = << TextFrame(MSG_SUCCESS_UPLOADED) >>
    /\ S_saved_ \o N_a \in DOMAIN fs

\* ------------------------------------------------------------ C3
(* C3: once the connection that sent the upload line is in file-transfer     *)
(* mode, no byte it sent is left in the command buffer: every byte received  *)
(* was either consumed as a command line or handed to chunk reassembly.      *)
C3_NoByteStranded ==
    \A fd \in Fds :
        (scn.kind = "upload" /\ Registered(fd) /\ ClientOf(fd).state = 1)
            => /\ ClientOf(fd).buffer_len = 0
               /\ hist[fd].rx = hist[fd].text + hist[fd].fed

\* ------------------------------------------------------------ C4
HasSuccess(frames) ==
    \E k \in 1..Len(frames) : frames[k] = TextFrame(MSG_SUCCESS_UPLOADED)

(* C4: on a connection in file-transfer mode, a header under which payload   *)
(* was consumed is the next in sequence (the k-th such header carries id     *)
(* k - 1), and a stream whose ids are out of sequence gets no SUCCESS frame. *)
C4_SequentialChunkIds ==
    \A fd \in Fds :
        scn.kind = "badseq"
            => /\ \A k \in 1..Len(hist[fd].hlog) :
                      hist[fd].hlog[k].got > 0 => hist[fd].hlog[k].id = k - 1
               /\ ~HasSuccess(net_out[fd])

\* ------------------------------------------------------------ C6
(* C6: no header with chunk_size = 0 or chunk_size above the largest size    *)
(* the server's own validation admits is taken as the header of a chunk,     *)
(* in handle_file_transfer or in the loop inside handle_client_data.         *)
C6_ChunkSizeRejected ==
    \A fd \in Fds :
        \A k \in 1..Len(hist[fd].hlog) :
            /\ hist[fd].hlog[k].size # 0
            /\ ~UGt(hist[fd].hlog[k].size, MAX_HEADER_CHUNK_SIZE)

\* ------------------------------------------------------------ C10
\* the step is a command-mode read that does not fit the command buffer
OverflowingRead(fd) ==
    /\ Registered(fd)
    /\ ClientOf(fd).state = 0
    /\ Len(net_in'[fd]) < Len(net_in[fd])
    /\ ~looks_like_header(Take(net_in[fd], Len(net_in[fd]) - Len(net_in'[fd])))
    /\ ClientOf(fd).buffer_len + (Len(net_in[fd]) - Len(net_in'[fd])) >= BUFFER_SIZE - 1

(* C10: a read that does not fit the command buffer puts exactly one frame,  *)
(* the ERROR: Buffer overflow line, on the socket, dispatches no command,    *)
(* and the same event removes the connection from the table, from the epoll  *)
(* set and closes its descriptor.                                            *)
C10_OverflowDisconnects ==
    [][ \A fd \in Fds :
          OverflowingRead(fd)
            => /\ net_out'[fd] = Append(net_out[fd], TextFrame(MSG_ERR_OVERFLOW))
               /\ hist'[fd].cmds = hist[fd].cmds
               /\ find_client(clients', fd) = 0
               /\ fd \notin epoll_set'
               /\ fd \notin open_fds' ]_vars

\* more bytes than the buffer holds arrived, the last read with a command in it
C10_Witness ==
    /\ scn.kind = "overflow"
    /\ hist[TheFd].rx > BUFFER_SIZE
    /\ \E k \in 1..Len(scn.stream) : scn.stream[k] = LF
    /\ net_in[TheFd] = <<>>
    /\ net_out[TheFd] = << TextFrame(MSG_ERR_OVERFLOW) >>
    /\ hist[TheFd].cmds = <<>>
    /\ ~Registered(TheFd)
    /\ TheFd \notin epoll_set \cup open_fds

\* ------------------------------------------------------------ C5
Rejected(h) == ~h.ok /\ h.got = 0

\* the event was a read in which the transfer code returned -1
DownloadFailed == clog.ev.kind = "read" /\ clog.ev.ret = -1

(* C5: in a download, a completed header after the first whose chunk_id is   *)
(* not the previous header's id plus one is rejected with no payload byte    *)
(* copied under it, and an event in which receive_file_chunk_epoll returned  *)
(* -1 ends with the file closed and the client in STATE_COMMAND.             *)
C5_ClientSequenceChecked ==
    /\ \A k \in 2..Len(clog.hdrs) :
          clog.hdrs[k].id # clog.hdrs[k - 1].id + 1 => Rejected(clog.hdrs[k])
    /\ DownloadFailed => (ts = init_transfer_state /\ cnopen = 0)

\* ids 0, 1, 3: the third header was rejected and the download given up
C5_Witness ==
    /\ Len(clog.hdrs) = 3
    /\ clog.hdrs[3].id = 3
    /\ clog.hdrs[2].id = 1
    /\ clog.hdrs[2].got = clog.hdrs[2].size
    /\ Rejected(clog.hdrs[3])
    /\ DownloadFailed
    /\ ts.state = STATE_COMMAND

\* ------------------------------------------------------------ C7
(* C7: in a download, a completed header with chunk_size 0 or above          *)
(* CHUNK_SIZE is rejected with no payload byte copied under it, and the      *)
(* event that rejected it ends with no file open and the client in           *)
(* STATE_COMMAND.                                                            *)
C7_ClientChunkSizeChecked ==
    /\ \A k \in 1..Len(clog.hdrs) :
          (clog.hdrs[k].size = 0 \/ UGt(clog.hdrs[k].size, CHUNK_SIZE))
              => Rejected(clog.hdrs[k])
    /\ (DownloadFailed /\ clog.hdrs # <<>>)
          => (ts.state = STATE_COMMAND /\ ~ts.file_ptr.open /\ cnopen = 0)

\* a second header of CHUNK_SIZE + 1 bytes was rejected after a good first chunk
C7_Witness ==
    /\ Len(clog.hdrs) = 2
    /\ clog.hdrs[1].ok
    /\ clog.hdrs[2].size = CHUNK_SIZE + 1
    /\ Rejected(clog.hdrs[2])
    /\ DownloadFailed
    /\ ts.state = STATE_COMMAND
    /\ sock_in # <<>>

\* ------------------------------------------------------------ C9
IsTransferCommand(command) == HasPrefix(command, S_get_) \/ HasPrefix(command, C_send_)

(* C9: a get or send line typed while the client is in STATE_SENDING or      *)
(* STATE_RECEIVING changes nothing of transfer_state (mode, file, counters), *)
(* of the reassembly state, of the disk or of the epoll interest, and writes *)
(* nothing to the socket.                                                    *)
C9_TransferRequestRejected ==
    [][ (/\ clog'.ncmd = clog.ncmd + 1
         /\ IsTransferCommand(clog'.ev.cmd)
         /\ ts.state \in {STATE_SENDING, STATE_RECEIVING})
          => /\ ts' = ts
             /\ rs' = rs
             /\ sock_out' = sock_out
             /\ cfiles' = cfiles
             /\ cnopen' = cnopen
             /\ cli'.interest = cli.interest ]_vars

\* send f was typed in the middle of a download
C9_Witness ==
    /\ clog.ev.kind = "user"
    /\ clog.ev.cmd = C_send_ \o N_f
    /\ ts.state = STATE_RECEIVING
    /\ ts.file_ptr.open
    /\ sock_out = <<>>

\* ------------------------------------------------------------ C8
CeilDiv(a, b) == IF a % b = 0 THEN a \div b ELSE (a \div b) + 1

\* the payload length of chunk k of a file of S bytes
ExpectedLength(S, k) ==
    IF k < CeilDiv(S, CHUNK_SIZE) - 1 THEN CHUNK_SIZE
    ELSE S - (CeilDiv(S, CHUNK_SIZE) - 1) * CHUNK_SIZE

RECURSIVE ExpectedUpload(_, _, _)
\* chunks k, k + 1, ... of the file as the client announces them
ExpectedUpload(content, name, k) ==
    IF k >= CeilDiv(Len(content), CHUNK_SIZE) THEN <<>>
    ELSE MakeHeader(k, ExpectedLength(Len(content), k), CeilDiv(Len(content), CHUNK_SIZE),
                    IF k = 0 THEN NameField(name) ELSE Fill(FILENAME_MAX_LEN, NUL))
           \o SubSeq(content, k * CHUNK_SIZE + 1,
                     k * CHUNK_SIZE + ExpectedLength(Len(content), k))
           \o ExpectedUpload(content, name, k + 1)

IsPrefix(s, t) == Len(s) <= Len(t) /\ s = Take(t, Len(s))

\* the only line typed so far was send f, so all that follows it is chunk bytes
OnlyUploading ==
    /\ cscn.kind = "upload"
    /\ clog.ncmd = 1
    /\ sock_out # <<>>
    /\ sock_out[1] = BinFrame(S_upload \o <<LF>>)

(* C8: what the client sender writes after the upload line is, chunk after   *)
(* chunk, header and payload of ids 0 .. ceil(S/512) - 1 of the file, every  *)
(* payload but the last of 512 bytes and the last of S - (total - 1) * 512,  *)
(* and all of them once the sender reports the upload complete.              *)
C8_SenderChunks ==
    OnlyUploading
        => /\ IsPrefix(Flatten(Tail(sock_out)), ExpectedUpload(cfiles[N_f], N_f, 0))
           /\ (clog.ev.kind = "write" /\ clog.ev.ret = 1)
                 => Flatten(Tail(sock_out)) = ExpectedUpload(cfiles[N_f], N_f, 0)


\* ------------------------------------------------------------ C2
Successes(frames) ==
    Cardinality({k \in 1..Len(frames) : frames[k] = TextFrame(MSG_SUCCESS_UPLOADED)})

\* the client sent the last chunk and the server read all that was sent
UploadDelivered ==
    /\ clog.ev.kind = "write"
    /\ clog.ev.ret = 1
    /\ net_in[TheFd] = <<>>

(* C2: during the upload of the 10-chunk file the server keeps the           *)
(* connection and sends SUCCESS at most once, and when the client has sent   *)
(* the last chunk and the server has read everything, the connection is in   *)
(* command mode, saved/f holds exactly the file's bytes and SUCCESS was sent *)
(* exactly once.                                                             *)
C2_EndToEndUpload ==
    cscn.kind = "e2e"
        => /\ Registered(TheFd)
           /\ TheFd \in open_fds
           /\ Successes(net_out[TheFd]) <= 1
           /\ UploadDelivered
                 => /\ ClientOf(TheFd).state = 0
                    /\ S_saved_ \o N_f \in DOMAIN fs
                    /\ fs[S_saved_ \o N_f] = E2EFile
                    /\ Successes(net_out[TheFd]) = 1


\* ------------------------------------------------------------ C11
\* the commands the step dispatched on fd
NewCmds(fd) == SubSeq(hist'[fd].cmds, Len(hist[fd].cmds) + 1, Len(hist'[fd].cmds))

MissingGet(command) == HasPrefix(command, S_get_) /\ Drop(command, 4) \notin DOMAIN fs

(* C11: a read whose commands are all get commands for files that cannot be  *)
(* opened adds to what the server sent exactly one `ERROR: File not found`   *)
(* line per command and no chunk bytes, changes no file, and leaves the      *)
(* connection registered, watched and in command mode.                       *)
C11_GetMissingFile ==
    [][ \A fd \in Fds :
          (/\ NewCmds(fd) # <<>>
           /\ \A k \in 1..Len(NewCmds(fd)) : MissingGet(NewCmds(fd)[k]))
            => /\ net_out'[fd] = net_out[fd]
                     \o [k \in 1..Len(NewCmds(fd)) |-> TextFrame(MSG_ERR_NOT_FOUND)]
               /\ fd \in epoll_set'
               /\ fd \in open_fds'
               /\ find_client(clients', fd) # 0
               /\ clients'[find_client(clients', fd)].state = 0
               /\ fs' = fs ]_vars

\* get a was dispatched with no file a on the disk, and answered
C11_Witness ==
    /\ scn.kind = "get"
    /\ hist[TheFd].cmds = <<S_get_ \o N_a>>
    /\ N_a \notin DOMAIN fs
    /\ net_out[TheFd] = <<TextFrame(MSG_ERR_NOT_FOUND)>>
    /\ Registered(TheFd)


\* ------------------------------------------------------------ C12
(* C12: between events, a server connection in command mode (state 0) has no *)
(* upload file open, and the client is in STATE_COMMAND exactly when its     *)
(* file_ptr is NULL.                                                         *)
C12_ModeOwnsTransfer ==
    /\ \A i \in 1..Len(clients) : clients[i].state = 0 => ~clients[i].upload_file.open
    /\ ts.state = STATE_COMMAND <=> ~ts.file_ptr.open


\* ------------------------------------------------------------ C13
(* C13: the chunks counted never exceed the expected total, between events   *)
(* and right after every increment inside a handler: on the server           *)
(* received_chunks <= expected_chunks, on the client current_chunk <=        *)
(* total_chunks.                                                             *)
C13_CountWithinTotal ==
    /\ \A i \in 1..Len(clients) : clients[i].received_chunks <= clients[i].expected_chunks
    /\ \A fd \in Fds : ~hist[fd].over
    /\ ts.current_chunk <= ts.total_chunks
    /\ ~clog.over


\* ------------------------------------------------------------ C14
(* C14: on each connection SUCCESS is sent at most once for the one upload   *)
(* its peer attempts, and only when the first header accepted had chunk_id 0 *)
(* (the header that opens the destination) and that destination exists on   *)
(* the disk.                                                                 *)
C14_SuccessOnlyWhenComplete ==
    \A fd \in Fds :
        /\ Successes(net_out[fd]) <= 1
        /\ Successes(net_out[fd]) = 1
              => /\ hist[fd].hlog # <<>>
                 /\ hist[fd].hlog[1].id = 0
                 /\ \E path \in DOMAIN fs : HasPrefix(path, S_saved_)


NoTwin(cs) == \A i, j \in 1..Len(cs) : cs[i].socket_fd = cs[j].socket_fd => i = j

\* the record the table holds for a registered descriptor
RecordOf(cs, fd) == cs[find_client(cs, fd)]

\* the step takes fd out of the table
Removes(fd) == find_client(clients, fd) # 0 /\ find_client(clients', fd) = 0

(* C16: a step that removes a registered descriptor closes the upload file    *)
(* its entry had open, makes the table one entry shorter and leaves every     *)
(* other descriptor findable with its record as it was; remove_client for a   *)
(* descriptor that is not in the table changes nothing; and no descriptor is  *)
(* in the table twice.                                                        *)
C16_RemoveClient ==
    [][ /\ NoTwin(clients')
        /\ \A fd \in FdPool :
              /\ find_client(clients', fd) = 0
                    => /\ remove_client(clients', fd) = clients'
                       /\ remove_client_closes(clients', fd) = 0
              /\ Removes(fd)
                    => /\ client_count(clients') = client_count(clients) - 1
                       /\ nopen' = nopen - (IF RecordOf(clients, fd).upload_file.open
                                            THEN 1 ELSE 0)
                       /\ \A g \in FdPool \ {fd} :
                             find_client(clients, g) # 0
                                => /\ find_client(clients', g) # 0
                                   /\ RecordOf(clients', g) = RecordOf(clients, g) ]_vars

(* a hang-up has removed a client that was in the middle of an upload and was *)
(* not the last entry: the last entry now stands in its place                 *)
C16_Witness ==
    /\ last.kind = "hup"
    /\ find_client(clients, last.fd) = 0
    /\ hist[last.fd].hlog # <<>>
    /\ nopen = Cardinality({i \in 1..Len(clients) : clients[i].upload_file.open})
    /\ Len(clients) >= 2
    /\ \E i \in 1..(Len(clients) - 1) : clients[i].socket_fd > clients[i + 1].socket_fd


\* ------------------------------------------------------------ C17
\* the frame is among those sent so far
Sent(frames, msg) == \E k \in 1..Len(frames) : frames[k] = TextFrame(msg)

(* C17: a connection that was told its chunk header is invalid or its file    *)
(* cannot be created is still in the table, watched and open, and in command  *)
(* mode.                                                                      *)
C17_AbortKeepsConnection ==
    \A fd \in Fds :
        (Sent(net_out[fd], MSG_ERR_HEADER) \/ Sent(net_out[fd], MSG_ERR_CREATE))
           => /\ Registered(fd)
              /\ fd \in epoll_set
              /\ fd \in open_fds
              /\ ClientOf(fd).state = 0


\* ------------------------------------------------------------ C18
(* C18: an event whose recv returns EAGAIN/EWOULDBLOCK leaves the client in   *)
(* the table, watched and open, with its record unchanged, in command mode    *)
(* and in file-transfer mode alike.                                           *)
C18_WouldBlockKeeps ==
    [][ \A fd \in FdPool :
           SrvRecvFails(fd, "again")
              => /\ clients' = clients
                 /\ fd \in epoll_set'
                 /\ fd \in open_fds' ]_vars


\* ------------------------------------------------------------ C19
(* C19: whenever the client waits in STATE_RECEIVING its wait can time out,   *)
(* so that a download whose data stops coming is counted towards the          *)
(* threshold and aborted.                                                     *)
C19_StallTimesOut ==
    (ClientAlive /\ ts.state = STATE_RECEIVING) => wait_times_out(cli)

\* ------------------------------------------------------------ C20
(* C20: the client's socket is registered for EPOLLOUT exactly while the      *)
(* client is in STATE_SENDING.                                                *)
C20_WriteInterestIffSending ==
    ClientAlive => ("EPOLLOUT" \in cli.interest <=> ts.state = STATE_SENDING)


\* ------------------------------------------------------------ C21
\* the event on fd takes its client from command mode to file-transfer mode
EntersTransfer(fd) ==
    /\ find_client(clients, fd) # 0
    /\ clients[find_client(clients, fd)].state = 0
    /\ find_client(clients', fd) # 0
    /\ clients'[find_client(clients', fd)].state = 1

(* C21: an event that takes a connection from command mode to file-transfer  *)
(* mode has processed an upload command, and an event in command mode that   *)
(* processed nothing but upload commands has sent nothing.                    *)
C21_ModeSwitchOnlyByUpload ==
    [][ \A fd \in Fds :
           /\ EntersTransfer(fd)
                 => \E k \in 1..Len(NewCmds(fd)) : HasPrefix(NewCmds(fd)[k], S_upload)
           /\ (/\ find_client(clients, fd) # 0
               /\ clients[find_client(clients, fd)].state = 0
               /\ NewCmds(fd) # <<>>
               /\ \A k \in 1..Len(NewCmds(fd)) : HasPrefix(NewCmds(fd)[k], S_upload))
                 => net_out'[fd] = net_out[fd] ]_vars


\* ------------------------------------------------------------ C22
(* C22: while the upload is under way the chunk the sender reads next is the *)
(* chunk whose id it will announce, so that a chunk whose write would block   *)
(* goes out later under the same id with the same payload; and the bytes      *)
(* written so far are the first bytes of header(0) payload(0) header(1) ...   *)
C22_BlockedChunkSentAgain ==
    (OnlyUploading /\ ts.state = STATE_SENDING /\ ts.file_ptr.open)
        => /\ ts.file_ptr.pos = Min(ts.current_chunk * CHUNK_SIZE, Len(cfiles[N_f]))
           /\ IsPrefix(Flatten(Tail(sock_out)), ExpectedUpload(cfiles[N_f], N_f, 0))


\* ------------------------------------------------------------ C23
\* no result of the two sends makes a write-readiness event change anything
WriteChangesNothing ==
    \A r1 \in SendResults, r2 \in SendResults :
        /\ ev_writable(CNow, r1, r2).ts = ts
        /\ ev_writable(CNow, r1, r2).cli = cli
        /\ ev_writable(CNow, r1, r2).sent = <<>>

(* C23: an upload is never in a state in which write-readiness events leave  *)
(* the client in STATE_SENDING for good, whatever the sends return.           *)
C23_UploadNeverStuck ==
    ~(/\ ClientAlive
      /\ ts.state = STATE_SENDING
      /\ "EPOLLOUT" \in cli.interest
      /\ WriteChangesNothing)


\* ------------------------------------------------------------ C24
RECURSIVE PayloadsOf(_)
\* the file a chunk stream carries
PayloadsOf(chunks) ==
    IF chunks = <<>> THEN <<>>
    ELSE Payload(Head(chunks).id, Head(chunks).n) \o PayloadsOf(Tail(chunks))

\* the user has typed no send: whatever went out is a get line
NoUploadTyped == \A k \in 1..Len(sock_out) : sock_out[k] # BinFrame(S_upload \o <<LF>>)

(* C24: when the client has read all of a valid chunk stream, however the    *)
(* reads cut it, the download is over and the local file holds the bytes of   *)
(* the source.                                                                *)
C24_DownloadArrives ==
    (cscn.kind = "download" /\ NoUploadTyped /\ ClientAlive /\ sock_in = <<>>)
        => /\ N_a \in DOMAIN cfiles
           /\ cfiles[N_a] = PayloadsOf(cscn.chunks)
           /\ ts.state = STATE_COMMAND
           /\ cnopen = 0


\* ------------------------------------------------------------ C25
(* C25: once a download of a valid stream has begun, however the reads cut   *)
(* the stream, the local file holds the first bytes of the source, the       *)
(* download ends exactly when the last byte of the stream has been consumed,  *)
(* and the file then holds the whole source and is closed.                    *)
C25_ClientReassembly ==
    (cscn.kind = "download" /\ NoUploadTyped /\ clog.hdrs # <<>>)
        => /\ N_a \in DOMAIN cfiles
           /\ IsPrefix(cfiles[N_a], PayloadsOf(cscn.chunks))
           /\ ts.state = (IF sock_in = <<>> THEN STATE_COMMAND ELSE STATE_RECEIVING)
           /\ (clog.ev.kind = "read" /\ clog.ev.ret = 1) => sock_in = <<>>
           /\ sock_in = <<>>
                 => /\ cfiles[N_a] = PayloadsOf(cscn.chunks)
                    /\ ~ts.file_ptr.open
                    /\ cnopen = 0

\* the second header of a two-chunk download is cut by the end of a read
C25_Witness ==
    /\ cscn.kind = "download"
    /\ NoUploadTyped
    /\ Len(cscn.chunks) = 2
    /\ Len(clog.hdrs) = 1
    /\ ts.state = STATE_RECEIVING
    /\ rs.expecting_header = 1
    /\ rs.recv_pos \in 1..(HEADER_SIZE - 1)
    /\ cfiles[N_a] = Payload(0, cscn.chunks[1].n)


\* ------------------------------------------------------------ C26
(* C26: the event that handles the ready listening socket leaves no          *)
(* connection waiting in the listen queue.                                    *)
C26_AcceptDrainsQueue ==
    [][ scn'.pending < scn.pending => scn'.pending = 0 ]_vars


\* ------------------------------------------------------------ C27
\* the event on fd took bytes off the socket
ReadStep(fd) == Len(net_in'[fd]) < Len(net_in[fd])

\* the one recv of the event filled the handler's buffer
FilledBuffer(fd) ==
    Len(net_in[fd]) - Len(net_in'[fd]) = recv_capacity(clients, fd)

(* C27: a read event whose recv filled the buffer goes on reading, so that   *)
(* when the event is over nothing that had arrived on the descriptor is left  *)
(* unread.                                                                    *)
C27_EventDrainsSocket ==
    [][ \A fd \in Fds :
           (ReadStep(fd) /\ FilledBuffer(fd) /\ fd \in epoll_set')
              => net_in'[fd] = <<>> ]_vars


\* ------------------------------------------------------------ C28
\* a line the server has no command for
UnknownCommand(command) ==
    /\ ~HasPrefix(command, S_upload)
    /\ ~HasPrefix(command, S_get_)
    /\ ~HasPrefix(command, S_cd_)
    /\ ~HasPrefix(command, S_delete_)
    /\ ~HasPrefix(command, S_rename_)
    /\ command \notin {S_ls, S_pwd, S_health}

\* how many names, separated by spaces, a line holds
NamesIn(s) ==
    Cardinality({i \in 1..Len(s) : s[i] # SPACE /\ (i = 1 \/ s[i - 1] = SPACE)})

\* a rename line with fewer than two names after it
ShortRename(command) ==
    /\ HasPrefix(command, S_rename_)
    /\ NamesIn(Drop(command, 7)) < 2

\* the error line a faulty command is answered with
ErrorLineFor(command) ==
    TextFrame(IF ShortRename(command) THEN MSG_ERR_RENAME ELSE MSG_ERR_UNKNOWN)

Uploading(fd) ==
    /\ find_client(clients, fd) # 0
    /\ RecordOf(clients, fd).state = 1
    /\ RecordOf(clients, fd).upload_file.open

\* the event that tells the server the connection is gone
ConnectionLost(fd) ==
    \/ SrvRecvFails(fd, "eof")
    \/ SrvRecvFails(fd, "error")
    \/ SrvHangup(fd)

(* C29: the event that reports a connection lost in the middle of an upload  *)
(* closes the upload file once, leaves the file and its bytes on disk, takes  *)
(* the client out of the table and closes and unregisters the descriptor,     *)
(* all in that one event, and touches no other client.                        *)
C29_LostUploadTornDown ==
    [][ \A fd \in FdPool :
           (Uploading(fd) /\ ConnectionLost(fd))
              => /\ nopen' = nopen - 1
                 /\ fs' = fs
                 /\ RecordOf(clients, fd).upload_file.path \in DOMAIN fs'
                 /\ find_client(clients', fd) = 0
                 /\ fd \notin epoll_set'
                 /\ fd \notin open_fds'
                 /\ client_count(clients') = client_count(clients) - 1
                 /\ \A g \in FdPool \ {fd} :
                       find_client(clients, g) # 0
                          => /\ find_client(clients', g) # 0
                             /\ RecordOf(clients', g) = RecordOf(clients, g) ]_vars

\* a connection was lost after the first payload byte of its upload
C29_Witness ==
    /\ last.kind \in {"read", "hup"}
    /\ last.ret = -1
    /\ find_client(clients, last.fd) = 0
    /\ last.fd \notin open_fds
    /\ hist[last.fd].hlog # <<>>
    /\ S_saved_ \o N_a \in DOMAIN fs
    /\ nopen = Cardinality({i \in 1..Len(clients) : clients[i].upload_file.open})


\* ------------------------------------------------------------ C30
\* this step reads the bytes that make the client begin a download
DownloadBegins ==
    /\ ts.state = STATE_COMMAND
    /\ Len(sock_in') < Len(sock_in)
    /\ client_detects(Take(sock_in, Len(sock_in) - Len(sock_in')))

\* the statics as the first call of that download works on them
EntryStatics ==
    rf_begin([CNow EXCEPT !.ts.current_chunk = 0, !.ts.total_chunks = 0]).rs

(* C30: whenever the client begins a download, the reassembly code starts    *)
(* from expecting a header, with no buffered bytes and no remembered chunk   *)
(* id, whatever ended the download before it.                                *)
C30_DownloadStartsFresh ==
    [][ DownloadBegins
           => /\ EntryStatics.expecting_header = 1
              /\ EntryStatics.recv_pos = 0
              /\ EntryStatics.last_chunk_id = -1 ]_vars


\* ------------------------------------------------------------ C31
\* the bytes of the scenario's chunk stream, the text behind it not counted
ChunkStreamLen == Len(StreamOf(scn.chunks))

(* C31: when a read reaches past the end of an upload's last chunk, the      *)
(* bytes behind the chunk are handled as command text: only the chunk's      *)
(* bytes went through chunk reassembly, every byte behind them is in the     *)
(* command buffer or was shifted out of it as a line, and once the whole     *)
(* line is read it was dispatched, once.                                     *)
C31_TrailingBytesAreCommands ==
    \A fd \in Fds :
        (scn.kind = "trail" /\ Registered(fd) /\ hist[fd].rx >= ChunkStreamLen
            /\ Sent(net_out[fd], MSG_SUCCESS_UPLOADED))
           => /\ hist[fd].fed = ChunkStreamLen
              /\ hist[fd].text + ClientOf(fd).buffer_len = hist[fd].rx - ChunkStreamLen
              /\ ClientOf(fd).state = 0
              /\ (net_in[fd] = <<>> => hist[fd].cmds = << S_pwd >>)


\* ------------------------------------------------------------ C32
(* C32: while the client is STATE_SENDING nothing but the sender's writable  *)
(* events puts bytes on the socket: a line the user types during the upload  *)
(* adds nothing to the stream.                                               *)
C32_UploadStreamUninterrupted ==
    [][ (ClientAlive /\ ts.state = STATE_SENDING /\ sock_out' # sock_out)
           => clog'.ev.kind = "write" ]_vars


\* ------------------------------------------------------------ C33
(* C33: the client enters STATE_RECEIVING only from STATE_COMMAND, and only  *)
(* when its server-response buffer holds no unterminated text.               *)
C33_SwitchAtTextBoundary ==
    [][ (DownloadBegins \/ (ts.state # STATE_RECEIVING /\ ts'.state = STATE_RECEIVING))
           => /\ ts.state = STATE_COMMAND
              /\ cli.server_data_len = 0
              /\ cli.server_buffer = <<>> ]_vars


\* ------------------------------------------------------------ C34
\* this step reads at least a header's length while the client is STATE_COMMAND
ReadsHeaderLength ==
    /\ ClientAlive
    /\ ts.state = STATE_COMMAND
    /\ Len(sock_in) - Len(sock_in') >= HEADER_SIZE

\* the read was handed to the receive path: the client is STATE_RECEIVING, or
\* the download ended (1) or failed (-1) within the same read
SwitchedToReceiving ==
    /\ clog'.ev.kind = "read"
    /\ (ts'.state = STATE_RECEIVING \/ clog'.ev.ret # 0)

\* chunk_id == 0, 0 < chunk_size <= 512, 0 < total_chunks <= 2000000, a name
PlausibleFirstHeader(h) ==
    /\ hdr_chunk_id(h) = 0
    /\ hdr_chunk_size(h) # 0 /\ ~UGt(hdr_chunk_size(h), CHUNK_SIZE)
    /\ hdr_total_chunks(h) # 0 /\ ~UGt(hdr_total_chunks(h), MAX_TOTAL_CHUNKS)
    /\ hdr_filename(h)[1] # NUL

(* C34: a read of at least a header's length in STATE_COMMAND switches the   *)
(* client to STATE_RECEIVING exactly when the leading header has chunk_id 0, *)
(* 0 < chunk_size <= 512, 0 < total_chunks <= 2000000 and a non-empty name.  *)
C34_DetectorBounds ==
    [][ ReadsHeaderLength
           => (SwitchedToReceiving <=> PlausibleFirstHeader(Take(sock_in, HEADER_SIZE))) ]_vars


\* ------------------------------------------------------------ C35
\* the positions of the newlines in s
Newlines(s) == {i \in 1..Len(s) : s[i] = LF}

\* the bytes of s behind its last newline
TailOf(s) ==
    IF Newlines(s) = {} THEN s
    ELSE Drop(s, CHOOSE i \in Newlines(s) : \A j \in Newlines(s) : j <= i)

\* a line without one carriage return at its end
StripCR(line) ==
    IF line # <<>> /\ line[Len(line)] = CR THEN Take(line, Len(line) - 1) ELSE line

RECURSIVE LinesOf(_)
\* the newline-terminated lines of s in order, each without one trailing '\r'
LinesOf(s) ==
    IF Newlines(s) = {} THEN <<>>
    ELSE LET p == CHOOSE i \in Newlines(s) : \A j \in Newlines(s) : i <= j
         IN  << StripCR(Take(s, p - 1)) >> \o LinesOf(Drop(s, p))

\* the scenarios whose stream is lines of text that fit the command buffer
TextKinds == {"text", "errs", "get"}

(* C35: however the reads cut a sequence of newline-terminated commands that *)
(* fits the buffer, the commands dispatched so far are the complete lines    *)
(* received so far, in order, each once and without one trailing '\r', and   *)
(* the command buffer holds the bytes received behind the last newline.      *)
C35_TextFraming ==
    \A fd \in Fds :
        (scn.kind \in TextKinds /\ Registered(fd))
           => /\ hist[fd].cmds = LinesOf(Take(scn.stream, hist[fd].rx))
              /\ ClientOf(fd).buffer = TailOf(Take(scn.stream, hist[fd].rx))
              /\ ClientOf(fd).buffer_len = Len(ClientOf(fd).buffer)

\* ls was dispatched without its '\r', and a read has left `pw` in the buffer
C35_Witness ==
    /\ scn.kind = "text"
    /\ Registered(TheFd)
    /\ hist[TheFd].cmds = << S_ls >>
    /\ ClientOf(TheFd).buffer = Take(S_pwd, 2)
    /\ last.kind = "read"


\* ------------------------------------------------------------ C36
\* s is complete lines only, each of at most n bytes with its newline
ShortCommandsOnly(s, n) ==
    /\ s # <<>>
    /\ s[Len(s)] = LF
    /\ \A i \in 1..(Len(s) - n + 1) : \E j \in i..(i + n - 1) : s[j] = LF

\* the step sends the buffer-overflow line to fd's peer
OverflowSent(fd) ==
    /\ Len(net_out'[fd]) = Len(net_out[fd]) + 1
    /\ net_out'[fd][Len(net_out'[fd])] = TextFrame(MSG_ERR_OVERFLOW)

(* C36: the buffer-overflow disconnect needs pending input without a newline *)
(* that exceeds the buffer: when the bytes pending in the command buffer and *)
(* the bytes of the read are complete short commands only, the server does   *)
(* not send the overflow line and keeps the connection, however many bytes   *)
(* the read returns.                                                         *)
C36_ShortCommandsNeverOverflow ==
    [][ \A fd \in Fds :
           (/\ Registered(fd)
            /\ ClientOf(fd).state = 0
            /\ Len(net_in'[fd]) < Len(net_in[fd])
            /\ ShortCommandsOnly(ClientOf(fd).buffer
                                   \o Take(net_in[fd], Len(net_in[fd]) - Len(net_in'[fd])),
                                 Len(S_health) + 1))
              => /\ ~OverflowSent(fd)
                 /\ find_client(clients', fd) # 0 ]_vars


\* ------------------------------------------------------------ C37
\* the stored file on the wire: two chunks, each header with the name
StoredStream ==
    MakeHeader(0, CHUNK_SIZE, 2, NameField(N_b)) \o Take(StoredFile, CHUNK_SIZE)
      \o MakeHeader(1, Len(StoredFile) - CHUNK_SIZE, 2, NameField(N_b))
      \o Drop(StoredFile, CHUNK_SIZE)

StoredChunkLens == << HEADER_SIZE + CHUNK_SIZE, HEADER_SIZE + Len(StoredFile) - CHUNK_SIZE >>

(* The bytes that get out when chunks of the lengths lens are sent and send  *)
(* answers as o lists (0 would block, below 0 a hard error, else the bytes   *)
(* taken): a chunk is given up at the MAX_RETRIES-th would-block in a row or *)
(* at a hard error, and nothing is sent after that.                          *)
RECURSIVE BytesOut(_, _, _, _)
BytesOut(lens, done, blocks, o) ==
    IF lens = <<>> THEN 0
    ELSE IF done = Head(lens) THEN BytesOut(Tail(lens), 0, 0, o)
    ELSE IF blocks = MAX_RETRIES THEN 0
    ELSE IF o = <<>> THEN (Head(lens) - done) + BytesOut(Tail(lens), 0, 0, o)
    ELSE IF Head(o) = 0 THEN BytesOut(lens, done, blocks + 1, Tail(o))
    ELSE IF Head(o) < 0 THEN 0
    ELSE Min(Head(o), Head(lens) - done)
           + BytesOut(lens, done + Min(Head(o), Head(lens) - done), 0, Tail(o))

HeldOpen == {i \in 1..Len(clients) : clients[i].upload_file.open}

(* C38: every upload file the server has opened and not yet closed is the    *)
(* one file of some connection in the table, so that completion, failure or  *)
(* removal of that connection closes it: the streams open are as many as the *)
(* connections that hold one.                                                *)
C38_NoOrphanedUpload == nopen = Cardinality(HeldOpen)


\* ------------------------------------------------------------ C39
\* the step handled a readiness event of descriptor a: data, a failed read or a hang-up
EventOf(a) == last'.fd = a /\ last'.kind \in {"read", "hup"}

(* C39: an event of one connection leaves every other connection in the     *)
(* table as it was: its mode, command buffer, chunk reassembly fields and    *)
(* upload file, and with them its place in the epoll set, its descriptor and *)
(* the bytes sent to it.                                                     *)
C39_OtherConnectionsUntouched ==
    [][ \A a \in FdPool : \A b \in FdPool \ {a} :
           (EventOf(a) /\ find_client(clients, b) # 0)
              => /\ find_client(clients', b) # 0
                 /\ RecordOf(clients', b) = RecordOf(clients, b)
                 /\ (b \in epoll_set' <=> b \in epoll_set)
                 /\ (b \in open_fds' <=> b \in open_fds)
                 /\ net_out'[b] = net_out[b]
                 /\ net_in'[b] = net_in[b] ]_vars

\* a command of one connection was handled while another is inside an upload
C39_Witness ==
    /\ last.kind = "read" /\ last.fd = 6
    /\ hist[6].cmds = << S_pwd >>
    /\ find_client(clients, 5) # 0
    /\ RecordOf(clients, 5).state = 1
    /\ RecordOf(clients, 5).upload_file.open
    /\ RecordOf(clients, 5).payload_remaining = 1


\* ------------------------------------------------------------ C40
(* C40: in every state every connection's indices are within their buffers:  *)
(* 0 <= buffer_len <= BUFFER_SIZE - 2, 0 <= bytes_in_buffer <= HEADER_SIZE   *)
(* and 0 <= payload_remaining <= MAX_HEADER_CHUNK_SIZE (the largest chunk    *)
(* size the server's own validation lets through).                           *)
C40_IndicesInBounds ==
    \A i \in 1..Len(clients) :
        /\ 0 <= clients[i].buffer_len /\ clients[i].buffer_len <= BUFFER_SIZE - 2
        /\ 0 <= clients[i].bytes_in_buffer /\ clients[i].bytes_in_buffer <= HEADER_SIZE
        /\ 0 <= clients[i].payload_remaining
        /\ clients[i].payload_remaining <= MAX_HEADER_CHUNK_SIZE

====
